---- MODULE Spec2Model ----
(***************************************************************************)
(* A model of the crawl engine core of law-makers/crawl:                   *)
(*   - the browser pool   (internal/engine/dynamic/browser_pool.go)        *)
(*   - the response cache (internal/cache/cache.go)                        *)
(*   - the download pool  (internal/downloader/pool.go)                    *)
(* Each component has its own specification (SpecPool, SpecCache, SpecWP); *)
(* the variables of the other components stay parked at their initial     *)
(* values.                                                                 *)
(***************************************************************************)
EXTENDS Integers, Sequences, FiniteSets, Bags, TLC

\* ------------------------------------------------------------------------
\* Bounds of the model
\* ------------------------------------------------------------------------
\* configured size of the browser pool (opts.Size after clamping)
PoolSize == 2
\* number of concurrent fetches using the browser pool
NumFetches == 2
\* number of goroutines that may call BrowserPool.Close
NumClosers == 2
\* configured maximum size of the cache, in bytes (maxSizeBytes)
MaxSizeBytes == 3074
\* number of Get / Set / Delete / Clear calls made on the cache
MaxOps == 4
\* how far the clock advances
MaxTime == 2
\* the most URLs given to one DownloadBatch
MaxJobs == 2
\* the most workers of a WorkerPool
MaxWorkers == 2
\* the largest MaxAttempts of a retry configuration
MaxAttemptsBound == 3
\* number of goroutines calling the rate limiter
NumLimCallers == 2
\* number of calls made on the rate limiter
MaxLimCalls == 2
\* how far the clock of the rate limiter advances
MaxLimTime == 2
\* the most fragments of a document given to the strategy selector
MaxHtmlLen == 4
\* the largest script count given to the strategy selector
MaxScripts == 6
\* the most proxies of a ProxyPool
MaxProxies == 2
\* number of GetNext / MarkFailed / MarkHealthy calls made on a ProxyPool
MaxProxyOps == 4
\* how far the clock of the proxy pool advances, in minutes
MaxProxyTime == 6
\* the most requests given to one ScrapeBatch
MaxBatchReqs == 2
\* the largest concurrency of a batch Scraper
MaxBatchConc == 2
\* the largest opts.Size given to NewBrowserPool
MaxRequestedSize == 12
\* number of goroutines calling EnsureBrowserPool or the dynamic Fetch
NumAppCallers == 2
\* number of EnsureBrowserPool and Fetch calls made
MaxAppCalls == 4
\* the largest concurrency given to NewWorkerPool
MaxRequestedConc == 52
\* goroutines calling Fetch on one static scraper, and the calls in all
NumStaticCallers == 2
MaxStaticCalls == 3

VARIABLES
    \* ---- BrowserPool (browser_pool.go:17-24) ----
    contexts,      \* bp.contexts: the buffer of the channel, head first
    chClosed,      \* whether close(bp.contexts) has run
    chCloses,      \* how many times close(bp.contexts) has run
    closed,        \* bp.closed
    mu,            \* bp.mu: 0 when free, else the closer that holds it
    cancels,       \* per context: how many times its Cancel handle ran
    allocCancels,  \* how many times bp.allocCancel ran
    \* ---- one fetch goroutine using the pool ----
    fpc,           \* where the fetch is in Acquire / Release
    fctx,          \* the *BrowserContext the fetch has in hand (NilCtx: nil)
    ftimed,        \* whether the Acquire it is in was given a timeout > 0
    fres,          \* how its last Acquire ended
    frel,          \* how its last Release ended
    \* ---- one goroutine calling Close ----
    cpc,           \* where the caller is in Close
    clast          \* how its last Close call ended

VARIABLES
    \* ---- MemoryCache (cache.go:51-61) ----
    store,         \* mc.store: the keys of the map
    lruList,       \* mc.lruList: the entries, front (most recent) first
    size,          \* mc.size
    now,           \* time.Now()
    pendingDel,    \* per key: the "go mc.Delete(key)" goroutines not yet run
    ops,           \* how many calls were made so far
    lastOp,        \* the last call and what it returned
    useOrder       \* the stored keys, most recently used first

VARIABLES
    \* ---- WorkerPool.DownloadBatch (pool.go:40-99) ----
    urls,          \* the urls argument
    concurrency,   \* wp.concurrency
    downloaderNil, \* whether wp.downloader is nil
    ctxDone,       \* whether the ctx argument has been cancelled
    bpc,           \* where DownloadBatch is
    jobs,          \* the buffer of the jobs channel
    jobsClosed,    \* whether close(jobs) has run
    sent,          \* how many urls the sending goroutine has sent
    results,       \* the buffer of the results channel
    resultsClosed, \* whether close(results) has run
    wg,            \* the WaitGroup counter
    allResults,    \* the results collected so far
    \* ---- one worker goroutine (pool.go:102-177) ----
    wpc,           \* where the worker is
    wurl,          \* the job it is processing (currentURL), per iteration
    wres           \* the result it is about to send

VARIABLES
    \* ---- retry.WithRetry (retry.go:41-99) ----
    cfg,           \* the cfg argument
    rctxDone,      \* whether the ctx argument has been cancelled
    attempt,       \* the loop variable
    lastErr,       \* lastErr
    rpc,           \* where WithRetry is
    backoff,       \* the duration given to time.After
    slept,         \* how long the current select has waited
    preCancelled,  \* whether ctx was already cancelled when the select began
    ret,           \* what WithRetry returned
    errs,          \* what each invocation of fn returned, in order
    sleeps         \* the backoff of each select entered, in order

VARIABLES
    \* ---- DomainLimiter (limiter.go:32-37) ----
    perHost,       \* dl.perHost, as the ticks one token takes to refill
    burst,         \* dl.burst
    limiters,      \* dl.limiters: host -> the bucket it maps to (0: no entry)
    buckets,       \* the rate.Limiter instances created so far, by number
    dlmu,          \* dl.mu: 0 when free, else the caller that holds Lock
    lnow,          \* time.Now()
    \* ---- one goroutine calling Wait / Allow / Reserve / SetLimit ----
    lpc,           \* where the caller is
    lcall,         \* the call it is making and its arguments
    llim,          \* the *rate.Limiter it has in hand (0: none)
    lrsv,          \* the rate.Reservation it made
    lcalls,        \* how many calls were made so far
    lastRet,       \* the call that returned last, and what it returned
    \* ---- bookkeeping for the properties ----
    admitted,      \* per host: the time each admitted call was granted for
    created,       \* per host: how many buckets were stored in the map
    overridden     \* per host: whether SetLimit was called for it

poolVars == <<contexts, chClosed, chCloses, closed, mu, cancels, allocCancels,
              fpc, fctx, ftimed, fres, frel, cpc, clast>>

cacheVars == <<store, lruList, size, now, pendingDel, ops, lastOp, useOrder>>

wpVars == <<urls, concurrency, downloaderNil,
            ctxDone, bpc, jobs, jobsClosed, sent, results,
            resultsClosed, wg, allResults, wpc, wurl, wres>>

retryVars == <<cfg, rctxDone, attempt, lastErr, rpc, backoff, slept,
               preCancelled, ret, errs, sleeps>>

VARIABLES
    \* ---- hybrid.DetermineStrategy (strategy.go:33-50) ----
    html,          \* the html argument, as a sequence of fragments
    scriptCount,   \* the scriptCount argument
    strategy       \* the Strategy returned (NoStrategy before the call)

stratVars == <<html, scriptCount, strategy>>

VARIABLES
    \* ---- ProxyPool (proxy/pool.go:9-14) ----
    proxies,       \* p.proxies
    pindex,        \* p.index
    failed,        \* p.failed: proxy -> time of failure (NotFailed: absent)
    pnow,          \* time.Now(), in minutes
    gn,            \* the GetNext call in progress: start and turns so far
    pret,          \* what the last GetNext returned, and how many returned
    pops,          \* how many calls were made so far
    \* ---- bookkeeping for the properties ----
    markedAt,      \* per proxy: when it was marked failed, if not healed
    everMarked     \* whether MarkFailed was ever called

proxyVars == <<proxies, pindex, failed, pnow, gn, pret, pops, markedAt,
               everMarked>>

VARIABLES
    \* ---- batch.Scraper.ScrapeBatch (batch/scraper.go:36-80) ----
    requests,      \* the requests argument: the URL of each request
    bconc,         \* s.concurrency
    bctxDone,      \* whether the ctx argument has been cancelled
    bgroups,       \* the keys of domainGroups not yet ranged over
    bcur,          \* the group being dispatched and its requests still to go
    bpcd,          \* where the goroutine of ScrapeBatch is
    bwg,           \* the WaitGroup counter
    bjob,          \* per request: where its goroutine is
    bout,          \* per request: how its Fetch ended
    bresults,      \* the buffer of the results channel
    bclosed,       \* whether close(results) has run
    bgot,          \* the results the caller has received
    brange,        \* whether the caller's range loop has ended
    crashed        \* whether an unrecovered panic has ended the process

batchVars == <<requests, bconc, bctxDone, bgroups, bcur, bpcd, bwg, bjob,
               bout, bresults, bclosed, bgot, brange, crashed>>

VARIABLES
    \* ---- NewBrowserPool (browser_pool.go:42-145) ----
    np             \* the call: opts.Size as given, bp.size, the capacity
                   \* and length of bp.contexts, the loop variable i, and
                   \* whether the pool was closed

newPoolVars == <<np>>

VARIABLES
    \* ---- Application and dynamic.Scraper (app.go:28-40, 161-194) ----
    app,           \* a.BrowserPool, a.poolMu and d.browserPool of the
                   \* dynamic scraper; the pools created, the creations
                   \* that failed and the calls made so far
    ag             \* per goroutine: where it is, whether it is ordered
                   \* after the write of d.browserPool, what its last
                   \* Fetch read and its last EnsureBrowserPool returned

appVars == <<app, ag>>

VARIABLES
    \* ---- one call of dynamic Scraper.Fetch (scraper.go:305-496) ----
    fetch          \* per goroutine: where Fetch is, whether it read a pool,
                   \* bCtx while Fetch runs, how often it called Release,
                   \* whether a one-off browser was made, and what Fetch
                   \* returned

fetchVars == <<fetch>>

VARIABLES
    \* ---- NewWorkerPool and the workers of DownloadBatch, counted ----
    wq             \* the concurrency asked for, wp.concurrency, len(urls),
                   \* where DownloadBatch is, the loop variable w, and how
                   \* many workers were started, are in Download, have
                   \* exited, and how many jobs were taken

workersVars == <<wq>>

VARIABLES
    \* ---- the worker's call of rateLimiter.Wait (pool.go:153-157) ----
    wlim           \* per worker: what Wait returned for the job in hand

waitVars == <<wlim>>

VARIABLES
    \* ---- the static scraper and its shared http.Client ----
    sfetch         \* client.Jar and client.Timeout, each caller's Fetch in
                   \* progress, and the responses received per cache key

staticVars == <<sfetch>>

limVars == <<perHost, burst, limiters, buckets, dlmu, lnow, lpc, lcall, llim,
             lrsv, lastRet, lcalls, admitted, created, overridden>>

vars == <<poolVars, cacheVars, wpVars, retryVars, limVars, stratVars,
          proxyVars, batchVars, newPoolVars, appVars, fetchVars,
          workersVars,
          waitVars,
          staticVars>>

\* the variables of the components other than the one a specification runs
restOfPool ==
    <<cacheVars, wpVars, retryVars, limVars, stratVars, proxyVars,
      batchVars, newPoolVars,
      appVars, fetchVars,
      workersVars,
      waitVars,
      staticVars>>
restOfCache ==
    <<poolVars, wpVars, retryVars, limVars, stratVars, proxyVars,
      batchVars, newPoolVars,
      appVars, fetchVars,
      workersVars,
      waitVars,
      staticVars>>
restOfWP ==
    <<poolVars, cacheVars, retryVars, limVars, stratVars, proxyVars,
      batchVars, newPoolVars,
      appVars, fetchVars,
      workersVars,
      waitVars,
      staticVars>>
restOfRetry ==
    <<poolVars, cacheVars, wpVars, limVars, stratVars, proxyVars,
      batchVars, newPoolVars,
      appVars, fetchVars,
      workersVars,
      waitVars,
      staticVars>>
restOfLim ==
    <<poolVars, cacheVars, wpVars, retryVars, stratVars, proxyVars,
      batchVars, newPoolVars,
      appVars, fetchVars,
      workersVars,
      waitVars,
      staticVars>>
restOfStrat ==
    <<poolVars, cacheVars, wpVars, retryVars, limVars, proxyVars,
      batchVars, newPoolVars,
      appVars, fetchVars,
      workersVars,
      waitVars,
      staticVars>>
restOfProxy ==
    <<poolVars, cacheVars, wpVars, retryVars, limVars, stratVars,
      batchVars, newPoolVars,
      appVars, fetchVars,
      workersVars,
      waitVars,
      staticVars>>
restOfBatch ==
    <<poolVars, cacheVars, wpVars, retryVars, limVars, stratVars,
      proxyVars, newPoolVars,
      appVars, fetchVars,
      workersVars,
      waitVars,
      staticVars>>
restOfNewPool ==
    <<poolVars, cacheVars, wpVars, retryVars, limVars, stratVars,
      proxyVars, batchVars,
      appVars, fetchVars,
      workersVars,
      waitVars,
      staticVars>>
restOfApp ==
    <<poolVars, cacheVars, wpVars, retryVars, limVars, stratVars,
      proxyVars, batchVars, newPoolVars, fetchVars,
      workersVars,
      waitVars,
      staticVars>>
restOfFetch ==
    <<cacheVars, wpVars, retryVars, limVars, stratVars, proxyVars,
      batchVars, newPoolVars, appVars,
      workersVars,
      waitVars,
      staticVars>>
restOfWorkers ==
    <<poolVars, cacheVars, wpVars, retryVars, limVars, stratVars,
      proxyVars, batchVars, newPoolVars, appVars, fetchVars,
      waitVars,
      staticVars>>
restOfWait ==
    <<poolVars, cacheVars, retryVars, limVars, stratVars,
      proxyVars, batchVars, newPoolVars, appVars, fetchVars, workersVars,
      staticVars>>
restOfStatic ==
    <<poolVars, cacheVars, wpVars, retryVars, limVars, stratVars,
      proxyVars, batchVars, newPoolVars, appVars, fetchVars, workersVars,
      waitVars>>

\* ========================================================================
\* Browser pool
\* ========================================================================
Ctxs == 1..PoolSize
NilCtx == 0
Fetches == 1..NumFetches
Closers == 1..NumClosers
MuFree == 0

\* NewBrowserPool: `size` warmed contexts are put in the channel, pool open.
NewBrowserPool ==
    /\ contexts = [i \in 1..PoolSize |-> i]
    /\ chClosed = FALSE
    /\ chCloses = 0
    /\ closed = FALSE
    /\ mu = MuFree
    /\ cancels = [c \in Ctxs |-> 0]
    /\ allocCancels = 0
    /\ fpc = [f \in Fetches |-> "idle"]
    /\ fctx = [f \in Fetches |-> NilCtx]
    /\ ftimed = [f \in Fetches |-> FALSE]
    /\ fres = [f \in Fetches |-> "none"]
    /\ frel = [f \in Fetches |-> "none"]
    /\ cpc = [k \in Closers |-> "idle"]
    /\ clast = [k \in Closers |-> "none"]

\* ctx.Cancel(): the teardown handle of context c runs once more.
Cancel(c) == [cancels EXCEPT ![c] = @ + 1]

\* bp.Available(): len(bp.contexts)
Available == Len(contexts)

\* Acquire is entered, with or without a timeout.
AcquireStart(f) ==
    /\ fpc[f] = "idle"
    /\ \E t \in BOOLEAN : ftimed' = [ftimed EXCEPT ![f] = t]
    /\ fpc' = [fpc EXCEPT ![f] = "acq_recv"]
    /\ fres' = [fres EXCEPT ![f] = "pending"]
    /\ UNCHANGED <<contexts, chClosed, chCloses, closed, mu, cancels,
                   allocCancels, fctx, frel, cpc, clast>>

\* ctx := <-bp.contexts. A receive from a closed, drained channel returns
\* the zero value (nil) at once.
AcquireRecv(f) ==
    /\ fpc[f] = "acq_recv"
    /\ \/ /\ contexts # <<>>
          /\ fctx' = [fctx EXCEPT ![f] = Head(contexts)]
          /\ contexts' = Tail(contexts)
       \/ /\ contexts = <<>>
          /\ chClosed
          /\ fctx' = [fctx EXCEPT ![f] = NilCtx]
          /\ UNCHANGED contexts
    /\ fpc' = [fpc EXCEPT ![f] = "acq_lock"]
    /\ UNCHANGED <<chClosed, chCloses, closed, mu, cancels, allocCancels,
                   ftimed, fres, frel, cpc, clast>>

\* case <-time.After(timeout): the timer may fire whenever the select waits.
AcquireTimeout(f) ==
    /\ fpc[f] = "acq_recv"
    /\ ftimed[f]
    /\ fpc' = [fpc EXCEPT ![f] = "idle"]
    /\ fres' = [fres EXCEPT ![f] = "err_timeout"]
    /\ ftimed' = [ftimed EXCEPT ![f] = FALSE]
    /\ UNCHANGED <<contexts, chClosed, chCloses, closed, mu, cancels,
                   allocCancels, fctx, frel, cpc, clast>>

\* A faulty variant: the closed branch cancels the context and still returns it.
AcquireClosedKeepsCtx(f) ==
    /\ fctx[f] # NilCtx
    /\ cancels' = Cancel(fctx[f])
    /\ fres' = [fres EXCEPT ![f] = "ctx"]
    /\ fpc' = [fpc EXCEPT ![f] = "holding"]
    /\ UNCHANGED fctx

\* if bp.closed { ctx.Cancel(); return nil, error }. With ctx == nil the
\* call ctx.Cancel() dereferences a nil pointer and panics.
AcquireClosedBranch(f) ==
    IF fctx[f] = NilCtx
    THEN /\ fres' = [fres EXCEPT ![f] = "panic"]
         /\ fpc' = [fpc EXCEPT ![f] = "panicked"]
         /\ UNCHANGED <<cancels, fctx>>
    ELSE /\ cancels' = Cancel(fctx[f])
         /\ fctx' = [fctx EXCEPT ![f] = NilCtx]
         /\ fres' = [fres EXCEPT ![f] = "err_closed"]
         /\ fpc' = [fpc EXCEPT ![f] = "idle"]

\* bp.mu.Lock(); defer bp.mu.Unlock(); the closed check; return.
AcquireCheck(f) ==
    /\ fpc[f] = "acq_lock"
    /\ mu = MuFree
    /\ IF closed
       THEN AcquireClosedBranch(f)
       ELSE /\ fres' = [fres EXCEPT ![f] = "ctx"]
            /\ fpc' = [fpc EXCEPT ![f] = "holding"]
            /\ UNCHANGED <<cancels, fctx>>
    /\ ftimed' = [ftimed EXCEPT ![f] = FALSE]
    /\ UNCHANGED <<contexts, chClosed, chCloses, closed, mu, allocCancels,
                   frel, cpc, clast>>

\* Release, first half: under the lock, a closed pool cancels the context.
ReleaseCheck(f) ==
    /\ fpc[f] = "holding"
    /\ mu = MuFree
    /\ IF closed
       THEN /\ cancels' = Cancel(fctx[f])
            /\ fctx' = [fctx EXCEPT ![f] = NilCtx]
            /\ frel' = [frel EXCEPT ![f] = "cancelled"]
            /\ fpc' = [fpc EXCEPT ![f] = "idle"]
       ELSE /\ frel' = [frel EXCEPT ![f] = "pending"]
            /\ fpc' = [fpc EXCEPT ![f] = "rel_send"]
            /\ UNCHANGED <<cancels, fctx>>
    /\ UNCHANGED <<contexts, chClosed, chCloses, closed, mu, allocCancels,
                   ftimed, fres, cpc, clast>>

\* Release, second half, after the lock was dropped and the page reset:
\* select { case bp.contexts <- ctx: ; default: ctx.Cancel() }.
\* A send on a closed channel panics, also inside a select.
ReleaseSend(f) ==
    /\ fpc[f] = "rel_send"
    /\ IF chClosed
       THEN /\ frel' = [frel EXCEPT ![f] = "panic"]
            /\ fpc' = [fpc EXCEPT ![f] = "panicked"]
            /\ UNCHANGED <<contexts, cancels, fctx>>
       ELSE IF Len(contexts) < PoolSize
       THEN /\ contexts' = Append(contexts, fctx[f])
            /\ fctx' = [fctx EXCEPT ![f] = NilCtx]
            /\ frel' = [frel EXCEPT ![f] = "returned"]
            /\ fpc' = [fpc EXCEPT ![f] = "idle"]
            /\ UNCHANGED cancels
       ELSE /\ cancels' = Cancel(fctx[f])
            /\ fctx' = [fctx EXCEPT ![f] = NilCtx]
            /\ frel' = [frel EXCEPT ![f] = "discarded"]
            /\ fpc' = [fpc EXCEPT ![f] = "idle"]
            /\ UNCHANGED contexts
    /\ UNCHANGED <<chClosed, chCloses, closed, mu, allocCancels,
                   ftimed, fres, cpc, clast>>

\* A faulty variant: Close without its "already closed" guard.
CloseBeginNoGuard(k) ==
    /\ cpc[k] = "idle"
    /\ mu = MuFree
    /\ closed' = TRUE
    /\ chClosed' = TRUE
    /\ chCloses' = chCloses + 1
    /\ mu' = k
    /\ cpc' = [cpc EXCEPT ![k] = "drain"]
    /\ UNCHANGED <<contexts, cancels, allocCancels, fpc, fctx, ftimed,
                   fres, frel, clast>>

\* Close: lock; if closed return nil; closed = true; close(bp.contexts).
CloseBegin(k) ==
    /\ cpc[k] = "idle"
    /\ mu = MuFree
    /\ IF closed
       THEN /\ clast' = [clast EXCEPT ![k] = "already_closed"]
            /\ UNCHANGED <<closed, chClosed, chCloses, mu, cpc>>
       ELSE /\ closed' = TRUE
            /\ chClosed' = TRUE
            /\ chCloses' = chCloses + 1
            /\ mu' = k
            /\ cpc' = [cpc EXCEPT ![k] = "drain"]
            /\ UNCHANGED clast
    /\ UNCHANGED <<contexts, cancels, allocCancels, fpc, fctx, ftimed,
                   fres, frel>>

\* for ctx := range bp.contexts { ctx.Cancel() }: one iteration.
CloseDrain(k) ==
    /\ cpc[k] = "drain"
    /\ contexts # <<>>
    /\ cancels' = Cancel(Head(contexts))
    /\ contexts' = Tail(contexts)
    /\ UNCHANGED <<chClosed, chCloses, closed, mu, allocCancels,
                   fpc, fctx, ftimed, fres, frel, cpc, clast>>

\* The range loop ends on the closed, empty channel; bp.allocCancel();
\* the deferred Unlock; return nil.
CloseFinish(k) ==
    /\ cpc[k] = "drain"
    /\ contexts = <<>>
    /\ allocCancels' = allocCancels + 1
    /\ mu' = MuFree
    /\ cpc' = [cpc EXCEPT ![k] = "idle"]
    /\ clast' = [clast EXCEPT ![k] = "shut_down"]
    /\ UNCHANGED <<contexts, chClosed, chCloses, closed, cancels,
                   fpc, fctx, ftimed, fres, frel>>

\* ------------------------------------------------------------------------
\* Properties of the browser pool
\* ------------------------------------------------------------------------
\* C1: an Acquire whose closed check runs after the pool was marked closed
\* returns the "pool is closed" error, hands out no context, and tears down
\* the context it received (if any).
C1_AcquireAfterCloseReturnsError ==
    [][\A f \in Fetches :
          (fpc[f] = "acq_lock" /\ fpc'[f] # "acq_lock" /\ closed)
          => /\ fres'[f] = "err_closed"
             /\ fctx'[f] = NilCtx
             /\ (fctx[f] # NilCtx
                 => cancels'[fctx[f]] = cancels[fctx[f]] + 1)]_vars

\* C2: a Release racing with Close completes normally (it never sends on
\* the closed channel), and no context stays available in a closed pool.
C2_ReleaseCompletesUnderClose ==
    /\ \A f \in Fetches : frel[f] # "panic"
    /\ (closed /\ mu = MuFree) => contexts = <<>>

\* how many times context c sits in the channel
InChannel(c) == Cardinality({i \in 1..Len(contexts) : contexts[i] = c})
\* the fetches that have context c in hand
Holders(c) == {f \in Fetches : fctx[f] = c}
\* whether the teardown handle of context c has run
Terminated(c) == cancels[c] > 0

\* C3: every context is in exactly one of three states: available in the
\* channel (once), held by exactly one fetch, or terminated; the channel
\* never holds more than the configured size.
C3_ContextStates ==
    /\ Available <= PoolSize
    /\ \A c \in Ctxs :
          \/ InChannel(c) = 1 /\ Holders(c) = {} /\ ~Terminated(c)
          \/ InChannel(c) = 0 /\ Cardinality(Holders(c)) = 1 /\ ~Terminated(c)
          \/ InChannel(c) = 0 /\ Holders(c) = {} /\ Terminated(c)

\* C3 witness: the pool is closed, one context was torn down and another is
\* still held by a fetch that acquired it.
C3_Witness ==
    /\ closed
    /\ \E c \in Ctxs : Terminated(c)
    /\ \E f \in Fetches : fpc[f] = "holding" /\ fctx[f] # NilCtx
                          /\ ~Terminated(fctx[f])

\* C4: Close is idempotent: the channel is closed at most once, the
\* allocator is cancelled at most once, no context is torn down twice, and
\* once a Close has returned on a closed pool nothing is available and the
\* allocator has been cancelled exactly once.
C4_CloseIdempotent ==
    /\ chCloses <= 1
    /\ allocCancels <= 1
    /\ \A c \in Ctxs : cancels[c] <= 1
    /\ (closed /\ mu = MuFree) => (Available = 0 /\ allocCancels = 1
                                    /\ chCloses = 1)
    /\ (\E k \in Closers : clast[k] = "already_closed") => closed

\* C4 witness: one caller's Close shut the pool down, tearing down every
\* context, and another caller's later Close found it already closed.
C4_Witness ==
    /\ \E k1, k2 \in Closers : /\ clast[k1] = "shut_down"
                               /\ clast[k2] = "already_closed"
    /\ \A c \in Ctxs : cancels[c] = 1
    /\ Available = 0

\* ========================================================================
\* Response cache (LRU + TTL)
\* ========================================================================
Keys == {"A", "B", "C"}

\* The pages stored: a page is modelled by the lengths of its HTML, Content
\* and Title strings.
Docs == { [HTML |-> 1, Content |-> 0, Title |-> 0],
          [HTML |-> 2, Content |-> 1, Title |-> 1] }
NoData == [HTML |-> -1, Content |-> -1, Title |-> -1]

\* the ttl arguments given to Set (0: "use the default")
TTLs == {0, 1}
\* ttl = 5 * time.Minute when ttl <= 0 (the unit of time is the minute)
DefaultTTL == 5
\* "size += 1024": the per-entry overhead Set adds
EntryOverhead == 1024

EffectiveTTL(ttl) == IF ttl <= 0 THEN DefaultTTL ELSE ttl

\* The cost Set adds for an entry:
\* len(data.HTML) + len(data.Content) + len(data.Title) + 1024
EntrySize(d) == d.HTML + d.Content + d.Title + EntryOverhead

\* The cost subtracted when an entry is replaced, deleted, evicted or swept:
\* len(entry.Data.HTML) + len(entry.Data.Content)
RemovedSize(d) == d.HTML + d.Content

\* time.Now().After(entry.ExpiresAt)
Expired(e) == now > e.ExpiresAt

\* the position in the list of the element that mc.store[k] points to
ElemOf(list, k) == CHOOSE i \in 1..Len(list) : list[i].Key = k

RemoveAt(list, i) == SubSeq(list, 1, i - 1) \o SubSeq(list, i + 1, Len(list))

\* A faulty variant: MoveToFront that leaves the list as it is.
MoveToFrontNoop(list, i) == list

\* lruList.MoveToFront(element)
MoveToFront(list, i) == <<list[i]>> \o RemoveAt(list, i)

\* The keys of a list of entries, in order.
KeysOf(list) == [i \in 1..Len(list) |-> list[i].Key]

\* The recency order after key k was used: k first, the rest as before.
Touch(order, k) ==
    <<k>> \o SelectSeq(order, LAMBDA x : x # k)

\* The recency order restricted to the keys still stored.
Restrict(order, keep) == SelectSeq(order, LAMBDA x : x \in keep)

NoOp == [op |-> "none", key |-> "", found |-> FALSE, data |-> NoData,
         evicted |-> <<>>, sizeBefore |-> 0]

NewMemoryCache ==
    /\ store = {}
    /\ lruList = <<>>
    /\ size = 0
    /\ now = 0
    /\ pendingDel = [k \in Keys |-> 0]
    /\ ops = 0
    /\ lastOp = NoOp
    /\ useOrder = <<>>

\* A faulty variant: Get without the expiry check.
GetIgnoringExpiry(k) ==
    /\ ops < MaxOps
    /\ ops' = ops + 1
    /\ IF k \notin store
       THEN /\ lastOp' = [NoOp EXCEPT !.op = "Get", !.key = k,
                                      !.sizeBefore = size]
            /\ UNCHANGED <<lruList, useOrder>>
       ELSE LET i == ElemOf(lruList, k) IN
            /\ lruList' = MoveToFront(lruList, i)
            /\ useOrder' = Touch(useOrder, k)
            /\ lastOp' = [NoOp EXCEPT !.op = "Get", !.key = k,
                                      !.found = TRUE,
                                      !.data = lruList[i].Data,
                                      !.sizeBefore = size]
    /\ UNCHANGED <<store, size, now, pendingDel>>

\* MemoryCache.Get
Get(k) ==
    /\ ops < MaxOps
    /\ ops' = ops + 1
    /\ IF k \notin store
       THEN /\ lastOp' = [NoOp EXCEPT !.op = "Get", !.key = k,
                                      !.sizeBefore = size]
            /\ UNCHANGED <<lruList, pendingDel, useOrder>>
       ELSE LET i == ElemOf(lruList, k) IN
            IF Expired(lruList[i])
            THEN \* a miss; "go mc.Delete(key)" is started
                 /\ pendingDel' = [pendingDel EXCEPT ![k] = @ + 1]
                 /\ lastOp' = [NoOp EXCEPT !.op = "Get", !.key = k,
                                           !.sizeBefore = size]
                 /\ UNCHANGED <<lruList, useOrder>>
            ELSE /\ lruList' = MoveToFront(lruList, i)
                 /\ useOrder' = Touch(useOrder, k)
                 /\ lastOp' = [NoOp EXCEPT !.op = "Get", !.key = k,
                                           !.found = TRUE,
                                           !.data = lruList[i].Data,
                                           !.sizeBefore = size]
                 /\ UNCHANGED pendingDel
    /\ UNCHANGED <<store, size, now>>

\* A faulty variant: evictLRU that removes the list element but leaves the
\* key in the map.
EvictLRUKeepsKey(c) ==
    IF c.list = <<>> THEN c
    ELSE LET e == c.list[Len(c.list)] IN
         [store   |-> c.store,
          list    |-> SubSeq(c.list, 1, Len(c.list) - 1),
          size    |-> c.size - RemovedSize(e.Data),
          evicted |-> Append(c.evicted, e)]

\* MemoryCache.evictLRU on the cache state c = [store, list, size, evicted]:
\* the back element is removed and len(HTML) + len(Content) subtracted;
\* c.evicted lists the entries evicted so far.
EvictLRU(c) ==
    IF c.list = <<>> THEN c
    ELSE LET e == c.list[Len(c.list)] IN
         [store   |-> c.store \ {e.Key},
          list    |-> SubSeq(c.list, 1, Len(c.list) - 1),
          size    |-> c.size - RemovedSize(e.Data),
          evicted |-> Append(c.evicted, e)]

\* for mc.size+size > mc.maxSize && mc.lruList.Len() > 0 { mc.evictLRU() }
RECURSIVE EvictUntilFits(_, _)
EvictUntilFits(c, cost) ==
    IF c.size + cost > MaxSizeBytes /\ Len(c.list) > 0
    THEN EvictUntilFits(EvictLRU(c), cost)
    ELSE c

\* MemoryCache.Set
Set(k, d, ttl) ==
    /\ ops < MaxOps
    /\ ops' = ops + 1
    /\ LET cost  == EntrySize(d)
           entry == [Key |-> k, Data |-> d,
                     ExpiresAt |-> now + EffectiveTTL(ttl)]
       IN IF k \in store
          THEN LET i == ElemOf(lruList, k)
                   oldSize == RemovedSize(lruList[i].Data)
               IN /\ lruList' = MoveToFront([lruList EXCEPT ![i] = entry], i)
                  /\ size' = (size - oldSize) + cost
                  /\ store' = store
                  /\ lastOp' = [NoOp EXCEPT !.op = "Set", !.key = k,
                                            !.sizeBefore = size]
          ELSE LET c == EvictUntilFits([store |-> store, list |-> lruList,
                                        size |-> size, evicted |-> <<>>],
                                       cost)
               IN /\ lruList' = <<entry>> \o c.list
                  /\ store' = c.store \cup {k}
                  /\ size' = c.size + cost
                  /\ lastOp' = [NoOp EXCEPT !.op = "Set", !.key = k,
                                            !.evicted = c.evicted,
                                            !.sizeBefore = size]
    /\ useOrder' = Restrict(Touch(useOrder, k), store')
    /\ UNCHANGED <<now, pendingDel>>

\* The body of MemoryCache.Delete, under the lock.
DeleteKey(k) ==
    IF k \in store
    THEN LET i == ElemOf(lruList, k) IN
         /\ lruList' = RemoveAt(lruList, i)
         /\ store' = store \ {k}
         /\ size' = size - RemovedSize(lruList[i].Data)
    ELSE UNCHANGED <<lruList, store, size>>

\* MemoryCache.Delete, called by a user of the cache
Delete(k) ==
    /\ ops < MaxOps
    /\ ops' = ops + 1
    /\ DeleteKey(k)
    /\ lastOp' = [NoOp EXCEPT !.op = "Delete", !.key = k, !.sizeBefore = size]
    /\ useOrder' = Restrict(useOrder, store')
    /\ UNCHANGED <<now, pendingDel>>

\* "go mc.Delete(key)": the goroutine Get started for an expired entry runs.
AsyncDelete(k) ==
    /\ pendingDel[k] > 0
    /\ pendingDel' = [pendingDel EXCEPT ![k] = @ - 1]
    /\ DeleteKey(k)
    /\ useOrder' = Restrict(useOrder, store')
    /\ UNCHANGED <<now, ops, lastOp>>

\* A faulty variant: Clear that forgets to reset mc.size.
ClearKeepsSize ==
    /\ ops < MaxOps
    /\ ops' = ops + 1
    /\ store' = {}
    /\ lruList' = <<>>
    /\ lastOp' = [NoOp EXCEPT !.op = "Clear", !.sizeBefore = size]
    /\ useOrder' = <<>>
    /\ UNCHANGED <<size, now, pendingDel>>

\* MemoryCache.Clear
Clear ==
    /\ ops < MaxOps
    /\ ops' = ops + 1
    /\ store' = {}
    /\ lruList' = <<>>
    /\ size' = 0
    /\ lastOp' = [NoOp EXCEPT !.op = "Clear", !.sizeBefore = size]
    /\ useOrder' = <<>>
    /\ UNCHANGED <<now, pendingDel>>

\* what removing every entry of a list subtracts from mc.size
RECURSIVE SumRemoved(_)
SumRemoved(list) ==
    IF list = <<>> THEN 0
    ELSE RemovedSize(Head(list).Data) + SumRemoved(Tail(list))

\* One tick of cleanupExpired: every expired entry is removed.
Sweep ==
    LET gone == SelectSeq(lruList, LAMBDA e : Expired(e))
        kept == SelectSeq(lruList, LAMBDA e : ~Expired(e))
    IN /\ lruList' = kept
       /\ store' = store \ {gone[i].Key : i \in 1..Len(gone)}
       /\ size' = size - SumRemoved(gone)
       /\ useOrder' = Restrict(useOrder, store')
       /\ UNCHANGED <<now, pendingDel, ops, lastOp>>

\* Time passes.
Tick ==
    /\ now < MaxTime
    /\ now' = now + 1
    /\ UNCHANGED <<store, lruList, size, pendingDel, ops, lastOp, useOrder>>


\* ------------------------------------------------------------------------
\* Properties of the response cache
\* ------------------------------------------------------------------------
\* the sum, over the stored entries, of the cost Set computed for them
RECURSIVE SumCost(_)
SumCost(list) ==
    IF list = <<>> THEN 0
    ELSE EntrySize(Head(list).Data) + SumCost(Tail(list))

\* C5: after a Set has returned, the accounted size does not exceed the
\* configured maximum.
C5_SizeWithinMax ==
    lastOp.op = "Set" => size <= MaxSizeBytes

\* C6: the entries a Set evicts are exactly the least recently used ones,
\* least recent first, where a Get hit and a Set count as a use; everything
\* else stays stored.
C6_EvictsLeastRecentlyUsed ==
    [][(ops' = ops + 1 /\ lastOp'.op = "Set" /\ lastOp'.evicted # <<>>)
       => LET ev == KeysOf(lastOp'.evicted)
              n  == Len(ev)
          IN /\ n <= Len(useOrder)
             /\ \A j \in 1..n : ev[j] = useOrder[Len(useOrder) - j + 1]
             /\ store' = (store \ {ev[j] : j \in 1..n}) \cup {lastOp'.key}
             /\ KeysOf(lruList') = <<lastOp'.key>>
                     \o SubSeq(useOrder, 1, Len(useOrder) - n)]_vars

\* C6 witness: A was last stored at time 0 (ttl 1) and B at time 1 (default
\* ttl), so A is more recent than B only through a later Get hit on A; the
\* Set of the new key C then evicted exactly one entry, B, and kept A.
C6_Witness ==
    /\ lastOp.op = "Set"
    /\ lastOp.key = "C"
    /\ Len(lastOp.evicted) = 1
    /\ lastOp.evicted[1].Key = "B"
    /\ lastOp.evicted[1].ExpiresAt = 1 + DefaultTTL
    /\ KeysOf(lruList) = <<"C", "A">>
    /\ lruList[2].ExpiresAt = 1
    /\ store = {"A", "C"}

\* C7: a Get of a stored entry whose expiry time has passed returns
\* (nil, false) and leaves the entry where it is in the LRU list.
C7_ExpiredGetIsMiss ==
    [][\A k \in Keys :
          (/\ ops' = ops + 1
           /\ lastOp'.op = "Get"
           /\ lastOp'.key = k
           /\ k \in store
           /\ now > lruList[ElemOf(lruList, k)].ExpiresAt)
          => /\ lastOp'.found = FALSE
             /\ lastOp'.data = NoData
             /\ lruList' = lruList
             /\ store' = store]_vars

\* C7 witness: a Get just missed on an entry that is still stored, past its
\* expiry, and not at the front of the list.
C7_Witness ==
    /\ lastOp.op = "Get"
    /\ ~lastOp.found
    /\ lastOp.key \in store
    /\ now > lruList[ElemOf(lruList, lastOp.key)].ExpiresAt
    /\ ElemOf(lruList, lastOp.key) > 1
    /\ pendingDel[lastOp.key] > 0

\* C8: the accounted size is never negative, and it is zero (with nothing
\* stored) after Clear.
C8_SizeNonNegativeZeroAfterClear ==
    /\ size >= 0
    /\ lastOp.op = "Clear" => (size = 0 /\ store = {} /\ lruList = <<>>)

\* C8 witness: Clear was called on a cache with a positive accounted size.
C8_Witness ==
    /\ lastOp.op = "Clear"
    /\ lastOp.sizeBefore > 0
    /\ size = 0

\* C9: the accounted size equals the sum of the costs Set computed for the
\* entries currently stored.
C9_SizeIsSumOfCosts ==
    size = SumCost(lruList)
\* the expired and the unexpired entries of the list, in list order
ExpiredEntries == SelectSeq(lruList, LAMBDA e : Expired(e))
FreshEntries == SelectSeq(lruList, LAMBDA e : ~Expired(e))

\* a step of the sweep: the only step of the cache that leaves the number
\* of calls, the pending deletions and the time as they are
SweepStep == ops' = ops /\ pendingDel' = pendingDel /\ now' = now

\* what a sweep does to the entries: every expired entry is gone from map
\* and list, the unexpired ones stay as they are and in their order, and
\* the entry count goes down by the number removed
SweepEntriesEffect ==
    /\ lruList' = FreshEntries
    /\ \A i \in 1..Len(lruList) :
          Expired(lruList[i]) <=> lruList[i].Key \notin store'
    /\ store' \subseteq store
    /\ Cardinality(store') = Cardinality(store) - Len(ExpiredEntries)

\* C38: a sweep removes exactly the expired entries, keeps the others with
\* their data, expiry and order, and lowers the entry count and the
\* accounted size by exactly the removed entries (by the cost Set added
\* for them).
C38_SweepRemovesExactlyExpired ==
    [][SweepStep
         => /\ SweepEntriesEffect
            /\ size' = size - SumCost(ExpiredEntries)]_vars

\* C39: a stored entry that has not expired leaves the cache only by a
\* Delete of its key, by Clear, or by the eviction of a Set.
C39_FreshEntryRemovedOnlyExplicitly ==
    [][\A i \in 1..Len(lruList) :
          (~Expired(lruList[i]) /\ lruList[i].Key \notin store')
             => /\ ops' = ops + 1
                /\ \/ lastOp'.op = "Delete" /\ lastOp'.key = lruList[i].Key
                   \/ lastOp'.op = "Clear"
                   \/ /\ lastOp'.op = "Set"
                      /\ \E j \in 1..Len(lastOp'.evicted) :
                            lastOp'.evicted[j].Key = lruList[i].Key]_vars

\* C40: the key map and the LRU list hold the same entries: every key of
\* the map has exactly one list element carrying it, every list element's
\* key is in the map, and the list is as long as the map is large.
C40_MapAndListAgree ==
    /\ \A k \in store :
          Cardinality({i \in 1..Len(lruList) : lruList[i].Key = k}) = 1
    /\ \A i \in 1..Len(lruList) : lruList[i].Key \in store
    /\ Len(lruList) = Cardinality(store)

\* C40 witness: a Set has just evicted an entry, a deletion started by a
\* Get of an expired entry is still pending, and two entries are stored.
C40_Witness ==
    /\ lastOp.op = "Set"
    /\ lastOp.evicted # <<>>
    /\ \E k \in Keys : pendingDel[k] > 0
    /\ Cardinality(store) = 2
    /\ Len(lruList) = 2



\* ========================================================================
\* Download worker pool
\* ========================================================================
URLs == {"u1", "u2"}
NoURL == ""
Workers == 1..MaxWorkers
NoResult == [URL |-> NoURL, Success |-> FALSE, Error |-> "none"]

\* the urls a caller may pass: every list of at most MaxJobs urls
UrlLists == UNION {[1..n -> URLs] : n \in 0..MaxJobs}

\* A WorkerPool and a call of DownloadBatch(ctx, urls, opts) on it; nothing
\* has run yet.
NewWorkerPool ==
    /\ urls \in UrlLists
    /\ concurrency \in 1..MaxWorkers
    /\ downloaderNil \in BOOLEAN
    /\ ctxDone = FALSE
    /\ bpc = "start"
    /\ jobs = <<>>
    /\ jobsClosed = FALSE
    /\ sent = 0
    /\ results = <<>>
    /\ resultsClosed = FALSE
    /\ wg = 0
    /\ allResults = <<>>
    /\ wpc = [w \in Workers |-> "unstarted"]
    /\ wurl = [w \in Workers |-> NoURL]
    /\ wres = [w \in Workers |-> NoResult]

\* The variables of the worker pool while another component is examined.
WorkerPoolParked ==
    /\ urls = <<>>
    /\ concurrency = 1
    /\ downloaderNil = FALSE
    /\ ctxDone = FALSE
    /\ bpc = "start"
    /\ jobs = <<>>
    /\ jobsClosed = FALSE
    /\ sent = 0
    /\ results = <<>>
    /\ resultsClosed = FALSE
    /\ wg = 0
    /\ allResults = <<>>
    /\ wpc = [w \in Workers |-> "unstarted"]
    /\ wurl = [w \in Workers |-> NoURL]
    /\ wres = [w \in Workers |-> NoResult]

\* DownloadBatch up to the collecting loop: no urls, return the empty list;
\* else make the channels and start wp.concurrency workers (wg.Add(1) each).
DownloadBatchStart ==
    /\ bpc = "start"
    /\ IF Len(urls) = 0
       THEN /\ bpc' = "returned"
            /\ UNCHANGED <<wg, wpc>>
       ELSE /\ bpc' = "collect"
            /\ wg' = concurrency
            /\ wpc' = [w \in Workers |->
                          IF w <= concurrency THEN "range" ELSE "unstarted"]
    /\ UNCHANGED <<urls, concurrency, downloaderNil,
                   ctxDone, jobs, jobsClosed, sent,
                   results, resultsClosed, allResults, wurl, wres>>

\* The caller cancels ctx.
CancelCtx ==
    /\ ~ctxDone
    /\ ctxDone' = TRUE
    /\ UNCHANGED <<urls, concurrency, downloaderNil,
                   bpc, jobs, jobsClosed, sent, results,
                   resultsClosed, wg, allResults, wpc, wurl, wres>>

\* The sending goroutine: jobs <- url, for the next url.
SendJob ==
    /\ bpc = "collect"
    /\ sent < Len(urls)
    /\ Len(jobs) < Len(urls)
    /\ jobs' = Append(jobs, urls[sent + 1])
    /\ sent' = sent + 1
    /\ UNCHANGED <<urls, concurrency, downloaderNil,
                   ctxDone, bpc, jobsClosed, results,
                   resultsClosed, wg, allResults, wpc, wurl, wres>>

\* The sending goroutine: close(jobs) after the last url.
CloseJobs ==
    /\ bpc = "collect"
    /\ sent = Len(urls)
    /\ ~jobsClosed
    /\ jobsClosed' = TRUE
    /\ UNCHANGED <<urls, concurrency, downloaderNil,
                   ctxDone, bpc, jobs, sent, results,
                   resultsClosed, wg, allResults, wpc, wurl, wres>>

\* for url := range jobs: the worker takes the next job, or leaves the loop
\* on the closed, empty channel and returns (the deferred wg.Done()).
WorkerRange(w) ==
    /\ wpc[w] = "range"
    /\ \/ /\ jobs # <<>>
          /\ wurl' = [wurl EXCEPT ![w] = Head(jobs)]
          /\ jobs' = Tail(jobs)
          /\ wpc' = [wpc EXCEPT ![w] = "check"]
          /\ UNCHANGED wg
       \/ /\ jobs = <<>>
          /\ jobsClosed
          /\ wpc' = [wpc EXCEPT ![w] = "exited"]
          /\ wg' = wg - 1
          /\ UNCHANGED <<wurl, jobs>>
    /\ UNCHANGED <<urls, concurrency, downloaderNil,
                   ctxDone, bpc, jobsClosed, sent, results,
                   resultsClosed, allResults, wres>>

\* A faulty variant: the cancelled worker returns without wg.Done().
WorkerCheckCtxNoDone(w) ==
    /\ wpc[w] = "check"
    /\ IF ctxDone
       THEN /\ wpc' = [wpc EXCEPT ![w] = "exited"]
            /\ wurl' = [wurl EXCEPT ![w] = NoURL]
       ELSE /\ wpc' = [wpc EXCEPT ![w] = "wait"]
            /\ UNCHANGED wurl
    /\ UNCHANGED <<urls, concurrency, downloaderNil, ctxDone, bpc, jobs,
                   jobsClosed, sent, results, resultsClosed, wg, allResults,
                   wres>>

\* select { case <-ctx.Done(): return; default: }
WorkerCheckCtx(w) ==
    /\ wpc[w] = "check"
    /\ IF ctxDone
       THEN /\ wpc' = [wpc EXCEPT ![w] = "exited"]
            /\ wurl' = [wurl EXCEPT ![w] = NoURL]
            /\ wg' = wg - 1
       ELSE /\ wpc' = [wpc EXCEPT ![w] = "wait"]
            /\ UNCHANGED <<wg, wurl>>
    /\ UNCHANGED <<urls, concurrency, downloaderNil,
                   ctxDone, bpc, jobs, jobsClosed, sent,
                   results, resultsClosed, allResults, wres>>

\* A faulty variant: an error of Wait makes the worker give up the job.
WorkerRateLimitAborts(w) ==
    /\ wpc[w] = "wait"
    /\ \/ wpc' = [wpc EXCEPT ![w] = "download"] /\ UNCHANGED wurl
       \/ wpc' = [wpc EXCEPT ![w] = "range"]
          /\ wurl' = [wurl EXCEPT ![w] = NoURL]
    /\ UNCHANGED <<urls, concurrency, downloaderNil,
                   ctxDone, bpc, jobs, jobsClosed, sent,
                   results, resultsClosed, wg, allResults, wres>>

\* wp.rateLimiter.Wait(ctx, url): its error is logged and nothing else.
WorkerRateLimit(w) ==
    /\ wpc[w] = "wait"
    /\ wpc' = [wpc EXCEPT ![w] = "download"]
    /\ UNCHANGED <<urls, concurrency, downloaderNil,
                   ctxDone, bpc, jobs, jobsClosed, sent,
                   results, resultsClosed, wg, allResults, wurl, wres>>

\* wp.downloader.Download(ctx, url, opts) is entered.
WorkerDownloadStart(w) ==
    /\ wpc[w] = "download"
    /\ wpc' = [wpc EXCEPT ![w] = "downloading"]
    /\ UNCHANGED <<urls, concurrency, downloaderNil,
                   ctxDone, bpc, jobs, jobsClosed, sent,
                   results, resultsClosed, wg, allResults, wurl, wres>>

\* Download returns a result (success or failure) for the url, or panics; on
\* a nil downloader it dereferences the nil pointer and always panics.
WorkerDownloadEnd(w) ==
    /\ wpc[w] = "downloading"
    /\ \/ /\ ~downloaderNil
          /\ \E ok \in BOOLEAN :
                wres' = [wres EXCEPT ![w] =
                            [URL |-> wurl[w], Success |-> ok,
                             Error |-> IF ok THEN "none" ELSE "download"]]
          /\ wpc' = [wpc EXCEPT ![w] = "send"]
       \/ /\ wpc' = [wpc EXCEPT ![w] = "recover"]
          /\ UNCHANGED wres
    /\ UNCHANGED <<urls, concurrency, downloaderNil,
                   ctxDone, bpc, jobs, jobsClosed, sent,
                   results, resultsClosed, wg, allResults, wurl>>

\* select { case results <- result: ; case <-ctx.Done(): return }; the
\* return leaves the per-job function only, so the worker loops on.
WorkerSend(w) ==
    /\ wpc[w] = "send"
    /\ \/ /\ Len(results) < Len(urls)
          /\ ~resultsClosed
          /\ results' = Append(results, wres[w])
       \/ /\ ctxDone
          /\ UNCHANGED results
    /\ wpc' = [wpc EXCEPT ![w] = "range"]
    /\ wres' = [wres EXCEPT ![w] = NoResult]
    /\ wurl' = [wurl EXCEPT ![w] = NoURL]
    /\ UNCHANGED <<urls, concurrency, downloaderNil,
                   ctxDone, bpc, jobs, jobsClosed, sent,
                   resultsClosed, wg, allResults>>

\* A faulty variant: the panic is reported as a result but ends the worker.
WorkerRecoverExits(w) ==
    /\ wpc[w] = "recover"
    /\ Len(results) < Len(urls)
    /\ ~resultsClosed
    /\ results' = Append(results, [URL |-> wurl[w], Success |-> FALSE,
                                   Error |-> "worker panic"])
    /\ wpc' = [wpc EXCEPT ![w] = "exited"]
    /\ wurl' = [wurl EXCEPT ![w] = NoURL]
    /\ wg' = wg - 1
    /\ UNCHANGED <<urls, concurrency, downloaderNil, ctxDone, bpc, jobs,
                   jobsClosed, sent, resultsClosed, allResults, wres>>

\* A faulty variant: the recovered panic is logged and no result is sent.
WorkerRecoverDropsJob(w) ==
    /\ wpc[w] = "recover"
    /\ wpc' = [wpc EXCEPT ![w] = "range"]
    /\ wurl' = [wurl EXCEPT ![w] = NoURL]
    /\ UNCHANGED <<urls, concurrency, downloaderNil,
                   ctxDone, bpc, jobs, jobsClosed, sent,
                   results, resultsClosed, wg, allResults, wres>>

\* The deferred recover(): a failed "worker panic" result for currentURL is
\* sent on results, and the worker loops on.
WorkerRecover(w) ==
    /\ wpc[w] = "recover"
    /\ Len(results) < Len(urls)
    /\ ~resultsClosed
    /\ results' = Append(results, [URL |-> wurl[w], Success |-> FALSE,
                                   Error |-> "worker panic"])
    /\ wpc' = [wpc EXCEPT ![w] = "range"]
    /\ wurl' = [wurl EXCEPT ![w] = NoURL]
    /\ UNCHANGED <<urls, concurrency, downloaderNil,
                   ctxDone, bpc, jobs, jobsClosed, sent,
                   resultsClosed, wg, allResults, wres>>

\* go func() { wg.Wait(); close(results) }()
CloseResults ==
    /\ bpc = "collect"
    /\ wg = 0
    /\ ~resultsClosed
    /\ resultsClosed' = TRUE
    /\ UNCHANGED <<urls, concurrency, downloaderNil,
                   ctxDone, bpc, jobs, jobsClosed, sent,
                   results, wg, allResults, wpc, wurl, wres>>

\* for result := range results: one result is appended to allResults, or
\* the loop ends on the closed, empty channel and DownloadBatch returns.
Collect ==
    /\ bpc = "collect"
    /\ \/ /\ results # <<>>
          /\ allResults' = Append(allResults, Head(results))
          /\ results' = Tail(results)
          /\ UNCHANGED bpc
       \/ /\ results = <<>>
          /\ resultsClosed
          /\ bpc' = "returned"
          /\ UNCHANGED <<allResults, results>>
    /\ UNCHANGED <<urls, concurrency, downloaderNil,
                   ctxDone, jobs, jobsClosed, sent,
                   resultsClosed, wg, wpc, wurl, wres>>

\* ------------------------------------------------------------------------
\* Properties of the download worker pool
\* ------------------------------------------------------------------------
\* how many times x occurs in a list
CountIn(list, x) == Cardinality({i \in 1..Len(list) : list[i] = x})

\* the urls of a list of results, in order
ResultURLs(list) == [i \in 1..Len(list) |-> list[i].URL]

\* C10: when the context is not cancelled, DownloadBatch returns exactly one
\* result per submitted url: the urls of the results and the submitted urls
\* are equal as multisets.
C10_OneResultPerJob ==
    (bpc = "returned" /\ ~ctxDone)
    => /\ Len(allResults) = Len(urls)
       /\ \A u \in URLs :
             CountIn(ResultURLs(allResults), u) = CountIn(urls, u)

\* C10 witness: a batch of MaxJobs urls, the same url given twice, returned
\* without cancellation after one job panicked and another succeeded.
C10_Witness ==
    /\ bpc = "returned"
    /\ ~ctxDone
    /\ Len(urls) = MaxJobs
    /\ urls[1] = urls[2]
    /\ \E i \in 1..Len(allResults) : allResults[i].Error = "worker panic"
    /\ \E i \in 1..Len(allResults) : allResults[i].Success

\* the failed result the deferred recover() sends for a url
PanicResult(u) == [URL |-> u, Success |-> FALSE, Error |-> "worker panic"]

\* C11: a job whose execution panics becomes a failed "worker panic" result
\* for that same url and the worker goes back to the job channel; with a
\* downloader that panics on every job, every returned result is such a
\* result, and without cancellation there is one per submitted url.
C11_PanicBecomesFailedResult ==
    [][/\ \A w \in Workers :
             (wpc[w] = "recover" /\ wpc'[w] # "recover")
             => /\ results' = Append(results, PanicResult(wurl[w]))
                /\ wpc'[w] = "range"
       /\ (bpc' = "returned" /\ downloaderNil)
          => /\ \A i \in 1..Len(allResults') :
                   allResults'[i] = PanicResult(allResults'[i].URL)
             /\ ~ctxDone' =>
                   /\ Len(allResults') = Len(urls)
                   /\ \A u \in URLs :
                         CountIn(ResultURLs(allResults'), u) = CountIn(urls, u)
      ]_vars

\* C11 witness: one worker, a nil downloader, MaxJobs urls, no cancellation:
\* the same worker has recovered from every panic and the batch returned.
C11_Witness ==
    /\ bpc = "returned"
    /\ downloaderNil
    /\ ~ctxDone
    /\ concurrency = 1
    /\ Len(urls) = MaxJobs
    /\ Len(allResults) = MaxJobs

\* C12: DownloadBatch always returns: in the end all workers have exited,
\* the result channel is closed and drained and the collecting loop has
\* ended, whatever panics and whenever the context is cancelled; a worker
\* that finds the context cancelled at its check does not process the job.
C12_DownloadBatchReturns ==
    /\ <>[](/\ bpc = "returned"
            /\ \A w \in Workers : wpc[w] \in {"unstarted", "exited"}
            /\ urls # <<>> => (resultsClosed /\ results = <<>>))
    /\ [][\A w \in Workers :
             (ctxDone /\ wpc[w] = "check") => wpc'[w] \in {"check", "exited"}
         ]_vars

\* C12 witness: a batch cancelled while it ran has returned fewer results
\* than urls, one of them a recovered panic, with every worker gone.
C12_Witness ==
    /\ bpc = "returned"
    /\ ctxDone
    /\ resultsClosed
    /\ Len(allResults) < Len(urls)
    /\ \E i \in 1..Len(allResults) : allResults[i].Error = "worker panic"
    /\ \A w \in Workers : wpc[w] = "exited"

\* ========================================================================
\* Retry with exponential backoff
\* ========================================================================
\* the HTTP status codes an error may expose
StatusCodes == {404, 429, 500}

\* the nil error, and ctx.Err() of a cancelled context
NilErr == [kind |-> "nil", code |-> 0, n |-> 0]
CtxErr == [kind |-> "canceled", code |-> 0, n |-> 0]

\* The errors the n-th invocation of fn may return: one exposing a status
\* code (StatusCoder), one with Timeout() true, one with Temporary() true,
\* one with Temporary() false, and one with none of these methods.
FnErrors(n) ==
    {[kind |-> "status", code |-> c, n |-> n] : c \in StatusCodes}
    \cup {[kind |-> k, code |-> 0, n |-> n] :
             k \in {"timeout", "temporary", "permanent", "plain"}}

\* retry.Config; Multiplier is MultiplierHalves / 2, durations in whole units
Configs ==
    [MaxAttempts : 1..MaxAttemptsBound,
     InitialBackoff : {1, 2},
     MaxBackoff : {1, 3},
     MultiplierHalves : {1, 2, 3, 4},
     RetryableStatusCodes : {{429}, {429, 500}}]

\* what WithRetry returns: nil, the operation's error, ctx.Err(), or
\* fmt.Errorf("operation failed after %d attempts: %w", attempts, err)
NoReturn == [kind |-> "none", err |-> NilErr, attempts |-> 0]
ReturnNil == [kind |-> "nil", err |-> NilErr, attempts |-> 0]
ReturnErr(e) == [kind |-> "own", err |-> e, attempts |-> 0]
ReturnCtxErr == [kind |-> "ctx", err |-> CtxErr, attempts |-> 0]
ReturnWrapped(k, e) == [kind |-> "wrapped", err |-> e, attempts |-> k]

\* errors.Unwrap of a returned error
Unwrap(r) == IF r.kind = "wrapped" THEN r.err ELSE NilErr

\* math.Pow for a whole exponent
RECURSIVE Pow(_, _)
Pow(b, k) == IF k = 0 THEN 1 ELSE b * Pow(b, k - 1)

\* A faulty variant: the backoff is not capped at MaxBackoff.
CalculateBackoffNoCap(a, c) ==
    (c.InitialBackoff * Pow(c.MultiplierHalves, a)) \div Pow(2, a)

\* calculateBackoff: InitialBackoff * Multiplier^attempt, capped at
\* MaxBackoff, then truncated to a Duration.
CalculateBackoff(a, c) ==
    IF c.InitialBackoff * Pow(c.MultiplierHalves, a) > c.MaxBackoff * Pow(2, a)
    THEN c.MaxBackoff
    ELSE (c.InitialBackoff * Pow(c.MultiplierHalves, a)) \div Pow(2, a)

\* A faulty variant: the status code of the error is not looked at.
ShouldRetryIgnoresStatus(e, c) ==
    /\ e # NilErr
    /\ e.kind # "permanent"

\* shouldRetry: a status code decides by the configured set; a timeout is
\* retried; Temporary() is honoured; anything else is retried.
ShouldRetry(e, c) ==
    IF e = NilErr THEN FALSE
    ELSE IF e.kind = "status" THEN e.code \in c.RetryableStatusCodes
    ELSE IF e.kind = "timeout" THEN TRUE
    ELSE IF e.kind = "temporary" THEN TRUE
    ELSE IF e.kind = "permanent" THEN FALSE
    ELSE TRUE

\* A faulty variant: the loop runs while attempt <= MaxAttempts.
LoopConditionOffByOne == attempt <= cfg.MaxAttempts

\* for attempt := 0; attempt < cfg.MaxAttempts; attempt++
LoopCondition == attempt < cfg.MaxAttempts

\* A faulty variant: only the first failure is remembered.
KeepFirstErr(e) == IF lastErr = NilErr THEN e ELSE lastErr

\* lastErr = err
AssignLastErr(e) == e

\* A call WithRetry(ctx, cfg, fn) that has not run yet.
NewRetry ==
    /\ cfg \in Configs
    /\ rctxDone = FALSE
    /\ attempt = 0
    /\ lastErr = NilErr
    /\ rpc = "loop"
    /\ backoff = 0
    /\ slept = 0
    /\ preCancelled = FALSE
    /\ ret = NoReturn
    /\ errs = <<>>
    /\ sleeps = <<>>

\* The variables of WithRetry while another component is examined.
RetryParked ==
    /\ cfg = [MaxAttempts |-> 1, InitialBackoff |-> 1, MaxBackoff |-> 1,
              MultiplierHalves |-> 2, RetryableStatusCodes |-> {429}]
    /\ rctxDone = FALSE
    /\ attempt = 0
    /\ lastErr = NilErr
    /\ rpc = "loop"
    /\ backoff = 0
    /\ slept = 0
    /\ preCancelled = FALSE
    /\ ret = NoReturn
    /\ errs = <<>>
    /\ sleeps = <<>>

\* A faulty variant: a cancelled sleep returns the operation's error.
SleepCtxDoneReturnsLastErr ==
    /\ rpc = "sleep"
    /\ rctxDone
    /\ ret' = ReturnErr(lastErr)
    /\ rpc' = "returned"
    /\ UNCHANGED <<cfg, rctxDone, attempt, lastErr, backoff, slept,
                   preCancelled, errs, sleeps>>

\* case <-ctx.Done(): return ctx.Err()
SleepCtxDone ==
    /\ rpc = "sleep"
    /\ rctxDone
    /\ ret' = ReturnCtxErr
    /\ rpc' = "returned"
    /\ UNCHANGED <<cfg, rctxDone, attempt, lastErr, backoff, slept,
                   preCancelled, errs, sleeps>>

\* case <-time.After(backoff): the next iteration (attempt++). The timer
\* wins over a cancelled context only when both are ready as the select
\* begins: the context was cancelled before and the backoff is zero.
SleepTimer ==
    /\ rpc = "sleep"
    /\ slept >= backoff
    /\ ~rctxDone \/ (preCancelled /\ backoff <= 0)
    /\ attempt' = attempt + 1
    /\ rpc' = "loop"
    /\ UNCHANGED <<cfg, rctxDone, lastErr, backoff, slept, preCancelled,
                   ret, errs, sleeps>>

\* time passes while the select waits
RetryTick ==
    /\ rpc = "sleep"
    /\ ~rctxDone
    /\ slept < backoff
    /\ slept' = slept + 1
    /\ UNCHANGED <<cfg, rctxDone, attempt, lastErr, rpc, backoff,
                   preCancelled, ret, errs, sleeps>>

\* the caller cancels ctx while WithRetry runs
RetryCancelCtx ==
    /\ rpc # "returned"
    /\ ~rctxDone
    /\ rctxDone' = TRUE
    /\ UNCHANGED <<cfg, attempt, lastErr, rpc, backoff, slept, preCancelled,
                   ret, errs, sleeps>>

\* One iteration of the loop up to the select: fn() returns e, one of E.
RetryAttemptOf(E) ==
    /\ rpc = "loop"
    /\ LoopCondition
    /\ \E e \in E :
          /\ errs' = Append(errs, e)
          /\ IF e = NilErr
             THEN /\ ret' = ReturnNil
                  /\ rpc' = "returned"
                  /\ UNCHANGED <<attempt, lastErr, backoff, slept,
                                 preCancelled, sleeps>>
             ELSE /\ lastErr' = AssignLastErr(e)
                  /\ IF ~ShouldRetry(e, cfg)
                     THEN /\ ret' = ReturnErr(e)
                          /\ rpc' = "returned"
                          /\ UNCHANGED <<attempt, backoff, slept,
                                         preCancelled, sleeps>>
                     ELSE IF attempt < cfg.MaxAttempts - 1
                     THEN /\ backoff' = CalculateBackoff(attempt, cfg)
                          /\ sleeps' = Append(sleeps, backoff')
                          /\ slept' = 0
                          /\ preCancelled' = rctxDone
                          /\ rpc' = "sleep"
                          /\ UNCHANGED <<attempt, ret>>
                     ELSE /\ attempt' = attempt + 1
                          /\ UNCHANGED <<rpc, ret, backoff, slept,
                                         preCancelled, sleeps>>
    /\ UNCHANGED <<cfg, rctxDone>>

\* One iteration, with any operation as fn.
RetryAttempt == RetryAttemptOf(FnErrors(Len(errs) + 1) \cup {NilErr})

\* The loop ends: "operation failed after %d attempts: %w".
RetryExhausted ==
    /\ rpc = "loop"
    /\ ~LoopCondition
    /\ ret' = ReturnWrapped(cfg.MaxAttempts, lastErr)
    /\ rpc' = "returned"
    /\ UNCHANGED <<cfg, rctxDone, attempt, lastErr, backoff, slept,
                   preCancelled, errs, sleeps>>

\* ------------------------------------------------------------------------
\* Properties of WithRetry
\* ------------------------------------------------------------------------
\* every invocation so far failed with an error exposing status code c
AlwaysFailsWith(c) ==
    /\ errs # <<>>
    /\ \A i \in 1..Len(errs) : errs[i].kind = "status" /\ errs[i].code = c

\* C13: an operation that always fails with an error exposing a status code
\* is invoked exactly MaxAttempts times when the code is in
\* RetryableStatusCodes (the context not being cancelled), and exactly once
\* when it is not; then WithRetry returns the operation's own error with no
\* sleep.
C13_StatusCodeClassification ==
    \A c \in StatusCodes :
       (rpc = "returned" /\ AlwaysFailsWith(c))
       => IF c \in cfg.RetryableStatusCodes
          THEN ~rctxDone => Len(errs) = cfg.MaxAttempts
          ELSE /\ Len(errs) = 1
               /\ ret = ReturnErr(errs[1])
               /\ sleeps = <<>>

\* C13 witness: MaxAttemptsBound invocations that all failed with 429, while
\* 500 is not retryable under the same configuration.
C13_Witness ==
    /\ rpc = "returned"
    /\ ~rctxDone
    /\ AlwaysFailsWith(429)
    /\ cfg.MaxAttempts = MaxAttemptsBound
    /\ Len(errs) = MaxAttemptsBound
    /\ 500 \notin cfg.RetryableStatusCodes

\* C14: fn is invoked at most MaxAttempts times, never again after it has
\* returned nil, and WithRetry returns nil exactly when some invocation
\* returned nil.
C14_AttemptsBoundedNilMeansSuccess ==
    [][/\ Len(errs') <= cfg.MaxAttempts
       /\ (\E i \in 1..Len(errs) : errs[i] = NilErr) => errs' = errs
       /\ rpc' = "returned"
          => (ret'.kind = "nil" <=> \E i \in 1..Len(errs') : errs'[i] = NilErr)
      ]_vars

\* C14 witness: the last of MaxAttemptsBound invocations returned nil after
\* the earlier ones failed, and WithRetry returned nil.
C14_Witness ==
    /\ rpc = "returned"
    /\ ret = ReturnNil
    /\ Len(errs) = MaxAttemptsBound
    /\ errs[1] # NilErr

\* C15: the n-th sleep (0-indexed) lasts min(InitialBackoff * Multiplier^n,
\* MaxBackoff) in whole units; it follows a failed, retryable invocation n
\* that is not the last one; the sleeps do not decrease when Multiplier >= 1.
C15_BackoffSchedule ==
    /\ Len(sleeps) <= Len(errs)
    /\ rpc = "returned" /\ ret.kind # "ctx" => Len(sleeps) = Len(errs) - 1
    /\ \A i \in 1..Len(sleeps) :
          LET n == i - 1
              d == sleeps[i]
              num == cfg.InitialBackoff * Pow(cfg.MultiplierHalves, n)
              den == Pow(2, n)
          IN  /\ d <= cfg.MaxBackoff
              /\ IF num >= cfg.MaxBackoff * den
                 THEN d = cfg.MaxBackoff
                 ELSE d * den <= num /\ num < (d + 1) * den
              /\ n < cfg.MaxAttempts - 1
              /\ errs[i] # NilErr
              /\ errs[i].kind = "status"
                 => errs[i].code \in cfg.RetryableStatusCodes
              /\ errs[i].kind # "permanent"
              /\ (cfg.MultiplierHalves >= 2 /\ i > 1) => sleeps[i - 1] <= d

\* C15 witness: two sleeps, the first below the cap and the second cut to
\* the cap, and no sleep after the final failed attempt.
C15_Witness ==
    /\ rpc = "returned"
    /\ ret.kind = "wrapped"
    /\ Len(errs) = 3
    /\ Len(sleeps) = 2
    /\ sleeps[1] < sleeps[2]
    /\ sleeps[2] = cfg.MaxBackoff
    /\ cfg.InitialBackoff * Pow(cfg.MultiplierHalves, 1) > cfg.MaxBackoff * 2

\* C16: once the context is cancelled during a sleep, WithRetry does not
\* wait any longer, does not invoke fn again, and returns ctx.Err(), which
\* is neither the operation's error nor the "failed after" wrapper.
C16_CancelDuringSleep ==
    [][(rpc = "sleep" /\ rctxDone /\ ~preCancelled)
       => /\ rpc' \in {"sleep", "returned"}
          /\ errs' = errs
          /\ slept' = slept
          /\ rpc' = "returned"
             => /\ ret' = ReturnCtxErr
                /\ ret'.err # lastErr
                /\ ret'.kind # "wrapped"
      ]_vars

\* C16 witness: cancelled one unit into a longer sleep, WithRetry returned
\* ctx.Err() with the backoff not waited out.
C16_Witness ==
    /\ rpc = "returned"
    /\ ret = ReturnCtxErr
    /\ ~preCancelled
    /\ slept = 1
    /\ backoff > 1
    /\ Len(errs) < cfg.MaxAttempts

\* C17: when all MaxAttempts invocations failed with retryable errors, the
\* returned error states MaxAttempts and unwraps to the error of the last
\* invocation.
C17_ExhaustedWrapsLastError ==
    (/\ rpc = "returned"
     /\ Len(errs) = cfg.MaxAttempts
     /\ \A i \in 1..Len(errs) : ShouldRetry(errs[i], cfg))
    => /\ ret.kind = "wrapped"
       /\ ret.attempts = cfg.MaxAttempts
       /\ Unwrap(ret) = errs[cfg.MaxAttempts]
       /\ Unwrap(ret).n = cfg.MaxAttempts

\* C17 witness: MaxAttemptsBound failures, a timeout first and a 429 last;
\* the wrapper holds the 429.
C17_Witness ==
    /\ rpc = "returned"
    /\ ret.kind = "wrapped"
    /\ cfg.MaxAttempts = MaxAttemptsBound
    /\ errs[1].kind = "timeout"
    /\ errs[MaxAttemptsBound].kind = "status"
    /\ Unwrap(ret).kind = "status"

\* ========================================================================
\* Per-domain rate limiter
\* ========================================================================
LimCallers == 1..NumLimCallers
Hosts == {"a.test", "b.test"}
NoHost == ""
Domains == Hosts \cup {NoHost}
LimURLs == {"http://a.test/1", "http://b.test/1", "http://%zz", "/no/host"}

\* url.Parse: whether it succeeds, and the Host of the parsed URL
ParseURL(u) ==
    CASE u = "http://a.test/1" -> [ok |-> TRUE, Host |-> "a.test"]
      [] u = "http://b.test/1" -> [ok |-> TRUE, Host |-> "b.test"]
      [] u = "http://%zz" -> [ok |-> FALSE, Host |-> NoHost]
      [] OTHER -> [ok |-> TRUE, Host |-> NoHost]

\* extractDomain: "" on a parse error, else u.Host
ExtractDomain(u) == IF ~ParseURL(u).ok THEN NoHost ELSE ParseURL(u).Host

\* A faulty variant: only a parse error lets the request through.
FailOpenOnParseErrorOnly(u) == ~ParseURL(u).ok

\* if domain == "" { return ... }: the request is let through
FailOpen(u) == ExtractDomain(u) = NoHost

\* The rate and burst a limiter may have. A rate is given as the ticks one
\* token takes to refill (1/R); token counts are kept in half tokens.
Periods == {1, 2}
Bursts == {1, 2}

\* rate.NewLimiter(r, b): a full bucket
NewLimiter(p, b) ==
    [period |-> p, burst |-> b, tokens |-> 2 * b, last |-> lnow,
     lastEvent |-> lnow]

\* Limit.tokensFromDuration and Limit.durationFromTokens (truncating)
TokensFromDuration(d, p) == (2 * d) \div p
DurationFromTokens(tk, p) == (tk * p) \div 2

\* A faulty variant: the tokens are not capped at burst.
AdvanceNoCap(b, t) ==
    LET elapsed == IF t < b.last THEN 0 ELSE t - b.last
    IN  b.tokens + TokensFromDuration(elapsed, b.period)

\* Limiter.advance: the tokens at time t, at most burst
Advance(b, t) ==
    LET elapsed == IF t < b.last THEN 0 ELSE t - b.last
        tk == b.tokens + TokensFromDuration(elapsed, b.period)
    IN  IF tk > 2 * b.burst THEN 2 * b.burst ELSE tk

\* Limiter.reserveN(t, 1, maxFutureReserve): mayWait stands for an
\* unlimited maxFutureReserve, otherwise it is zero.
ReserveN(b, t, mayWait) ==
    LET tk == Advance(b, t) - 2
        wait == IF tk < 0 THEN DurationFromTokens(-tk, b.period) ELSE 0
        ok == 1 <= b.burst /\ (mayWait \/ wait <= 0)
    IN  [ok |-> ok,
         timeToAct |-> t + wait,
         lim |-> IF ok
                 THEN [b EXCEPT !.tokens = tk, !.last = t,
                                !.lastEvent = t + wait]
                 ELSE b]

\* Reservation.CancelAt(t) of a reservation of one token made at rate p
CancelAt(b, act, p, t) ==
    LET restore == 2 - TokensFromDuration(b.lastEvent - act, p)
        tk == Advance(b, t) + restore
        prevEvent == act - DurationFromTokens(2, p)
    IN  IF act < t \/ restore <= 0 THEN b
        ELSE [b EXCEPT !.tokens = IF tk > 2 * b.burst THEN 2 * b.burst
                                  ELSE tk,
                       !.last = t,
                       !.lastEvent = IF act = b.lastEvent /\ prevEvent >= t
                                     THEN prevEvent ELSE @]

\* the rate and burst given to SetLimit
SetLimitArgs == {[period |-> 1, burst |-> 2]}

\* the urls given to Allow and Reserve, and the domains given to SetLimit
ProbeURLs == {"http://a.test/1", "http://%zz", "/no/host"}
SetLimitDomains == {"a.test"}

\* the calls a goroutine may make; a Wait may come with a cancelled ctx
LimCalls ==
    [op : {"Wait"}, url : LimURLs, cancelled : {FALSE},
     period : {0}, burst : {0}]
    \cup [op : {"Wait"}, url : {"http://a.test/1"}, cancelled : {TRUE},
          period : {0}, burst : {0}]
    \cup [op : {"Allow", "Reserve"}, url : ProbeURLs, cancelled : {FALSE},
          period : {0}, burst : {0}]
    \cup {[op |-> "SetLimit", url |-> h, cancelled |-> FALSE,
            period |-> l.period, burst |-> l.burst] :
              h \in SetLimitDomains, l \in SetLimitArgs}

NoCall == [op |-> "none", url |-> NoHost, cancelled |-> FALSE,
           period |-> 0, burst |-> 0]

\* a rate.Reservation: when it may act, and the rate it was made at
NoReservation == [timeToAct |-> 0, period |-> 0]

\* the record of a call that returned
Returned(c, v) == [op |-> c.op, url |-> c.url, value |-> v]
NoReturnYet == [op |-> "none", url |-> NoHost, value |-> "none"]

\* the domain a call names
DomainOf(c) == IF c.op = "SetLimit" THEN c.url ELSE ExtractDomain(c.url)

\* remove one occurrence of x from a list
RECURSIVE RemoveOne(_, _)
RemoveOne(list, x) ==
    IF list = <<>> THEN <<>>
    ELSE IF Head(list) = x THEN Tail(list)
    ELSE <<Head(list)>> \o RemoveOne(Tail(list), x)

\* NewDomainLimiter(requestsPerSecond, burst): no bucket yet
NewDomainLimiter ==
    /\ perHost \in Periods
    /\ burst \in Bursts
    /\ limiters = [d \in Domains |-> 0]
    /\ buckets = <<>>
    /\ dlmu = 0
    /\ lnow = 0
    /\ lpc = [p \in LimCallers |-> "idle"]
    /\ lcall = [p \in LimCallers |-> NoCall]
    /\ llim = [p \in LimCallers |-> 0]
    /\ lrsv = [p \in LimCallers |-> NoReservation]
    /\ lastRet = NoReturnYet
    /\ lcalls = 0
    /\ admitted = [d \in Domains |-> <<>>]
    /\ created = [d \in Domains |-> 0]
    /\ overridden = [d \in Domains |-> FALSE]

\* The variables of the rate limiter while another component is examined.
LimiterParked ==
    /\ perHost = 1
    /\ burst = 1
    /\ limiters = [d \in Domains |-> 0]
    /\ buckets = <<>>
    /\ dlmu = 0
    /\ lnow = 0
    /\ lpc = [p \in LimCallers |-> "idle"]
    /\ lcall = [p \in LimCallers |-> NoCall]
    /\ llim = [p \in LimCallers |-> 0]
    /\ lrsv = [p \in LimCallers |-> NoReservation]
    /\ lastRet = NoReturnYet
    /\ lcalls = 0
    /\ admitted = [d \in Domains |-> <<>>]
    /\ created = [d \in Domains |-> 0]
    /\ overridden = [d \in Domains |-> FALSE]

\* what a call that names no host returns at once
FailOpenResult(op) ==
    CASE op = "Wait" -> "nil"
      [] op = "Allow" -> "true"
      [] OTHER -> "empty_reservation"

\* Wait, Allow, Reserve or SetLimit is entered. Without a host the call
\* returns at once; otherwise getLimiter, or the lock of SetLimit, is next.
LimCallStart(p) ==
    /\ lpc[p] = "idle"
    /\ lcalls < MaxLimCalls
    /\ lcalls' = lcalls + 1
    /\ \E c \in LimCalls :
          IF c.op = "SetLimit"
          THEN /\ lpc' = [lpc EXCEPT ![p] = "set_lock"]
               /\ lcall' = [lcall EXCEPT ![p] = c]
               /\ UNCHANGED lastRet
          ELSE IF FailOpen(c.url)
          THEN /\ lastRet' = Returned(c, FailOpenResult(c.op))
               /\ UNCHANGED <<lpc, lcall>>
          ELSE /\ lpc' = [lpc EXCEPT ![p] = "lookup"]
               /\ lcall' = [lcall EXCEPT ![p] = c]
               /\ UNCHANGED lastRet
    /\ UNCHANGED <<perHost, burst, limiters, buckets, dlmu, lnow, llim, lrsv,
                   admitted, created, overridden>>

\* getLimiter: RLock, look the domain up, RUnlock.
GetLimiterRead(p) ==
    /\ lpc[p] = "lookup"
    /\ dlmu = 0
    /\ LET d == ExtractDomain(lcall[p].url)
       IN  IF limiters[d] # 0
           THEN /\ llim' = [llim EXCEPT ![p] = limiters[d]]
                /\ lpc' = [lpc EXCEPT ![p] = "op"]
           ELSE /\ lpc' = [lpc EXCEPT ![p] = "create"]
                /\ UNCHANGED llim
    /\ UNCHANGED <<perHost, burst, limiters, buckets, dlmu, lnow, lcall, lrsv,
                   lastRet, lcalls, admitted, created, overridden>>

\* A faulty variant: no second look at the map under the write lock.
GetLimiterCreateNoDoubleCheck(p) ==
    /\ lpc[p] = "create"
    /\ dlmu = 0
    /\ LET d == ExtractDomain(lcall[p].url)
       IN  /\ buckets' = Append(buckets, NewLimiter(perHost, burst))
           /\ limiters' = [limiters EXCEPT ![d] = Len(buckets) + 1]
           /\ created' = [created EXCEPT ![d] = @ + 1]
           /\ llim' = [llim EXCEPT ![p] = Len(buckets) + 1]
    /\ lpc' = [lpc EXCEPT ![p] = "op"]
    /\ UNCHANGED <<perHost, burst, dlmu, lnow, lcall, lrsv, lastRet, lcalls,
                   admitted, overridden>>

\* getLimiter: Lock, look again, create and store the bucket if it is still
\* missing, Unlock.
GetLimiterCreate(p) ==
    /\ lpc[p] = "create"
    /\ dlmu = 0
    /\ LET d == ExtractDomain(lcall[p].url)
       IN  IF limiters[d] # 0
           THEN /\ llim' = [llim EXCEPT ![p] = limiters[d]]
                /\ UNCHANGED <<buckets, limiters, created>>
           ELSE /\ buckets' = Append(buckets, NewLimiter(perHost, burst))
                /\ limiters' = [limiters EXCEPT ![d] = Len(buckets) + 1]
                /\ created' = [created EXCEPT ![d] = @ + 1]
                /\ llim' = [llim EXCEPT ![p] = Len(buckets) + 1]
    /\ lpc' = [lpc EXCEPT ![p] = "op"]
    /\ UNCHANGED <<perHost, burst, dlmu, lnow, lcall, lrsv, lastRet, lcalls,
                   admitted, overridden>>

\* The call of caller p returns v.
LimReturn(p, v) ==
    /\ lastRet' = Returned(lcall[p], v)
    /\ lpc' = [lpc EXCEPT ![p] = "idle"]
    /\ lcall' = [lcall EXCEPT ![p] = NoCall]
    /\ llim' = [llim EXCEPT ![p] = 0]
    /\ lrsv' = [lrsv EXCEPT ![p] = NoReservation]

\* limiter.Wait(ctx), limiter.Allow() or limiter.Reserve() on the bucket in
\* hand. Wait returns ctx.Err() when ctx is already cancelled, nil when no
\* delay is needed, and sleeps until timeToAct otherwise.
LimiterOp(p) ==
    /\ lpc[p] = "op"
    /\ LET d == ExtractDomain(lcall[p].url)
           r == ReserveN(buckets[llim[p]], lnow, lcall[p].op # "Allow")
       IN  IF lcall[p].op = "Wait" /\ lcall[p].cancelled
           THEN /\ LimReturn(p, "ctx_err")
                /\ UNCHANGED <<buckets, admitted>>
           ELSE IF ~r.ok
           THEN /\ LimReturn(p, IF lcall[p].op = "Allow" THEN "false"
                                ELSE "err")
                /\ UNCHANGED <<buckets, admitted>>
           ELSE /\ buckets' = [buckets EXCEPT ![llim[p]] = r.lim]
                /\ admitted' = [admitted EXCEPT ![d] =
                                   Append(@, r.timeToAct)]
                /\ IF lcall[p].op = "Wait" /\ r.timeToAct > lnow
                   THEN /\ lpc' = [lpc EXCEPT ![p] = "waiting"]
                        /\ lrsv' = [lrsv EXCEPT ![p] =
                                       [timeToAct |-> r.timeToAct,
                                        period |-> buckets[llim[p]].period]]
                        /\ UNCHANGED <<lcall, llim, lastRet>>
                   ELSE LimReturn(p, CASE lcall[p].op = "Wait" -> "nil"
                                       [] lcall[p].op = "Allow" -> "true"
                                       [] OTHER -> "reservation")
    /\ UNCHANGED <<perHost, burst, limiters, dlmu, lnow, lcalls, created,
                   overridden>>

\* limiter.Wait: the timer fires and Wait returns nil.
WaitReturn(p) ==
    /\ lpc[p] = "waiting"
    /\ lnow >= lrsv[p].timeToAct
    /\ LimReturn(p, "nil")
    /\ UNCHANGED <<perHost, burst, limiters, buckets, dlmu, lnow, lcalls,
                   admitted, created, overridden>>

\* limiter.Wait: ctx is cancelled during the sleep; the reservation is
\* cancelled and Wait returns ctx.Err().
WaitCancel(p) ==
    /\ lpc[p] = "waiting"
    /\ LET d == ExtractDomain(lcall[p].url)
       IN  /\ buckets' = [buckets EXCEPT ![llim[p]] =
                             CancelAt(@, lrsv[p].timeToAct, lrsv[p].period,
                                      lnow)]
           /\ admitted' = [admitted EXCEPT ![d] =
                              RemoveOne(@, lrsv[p].timeToAct)]
    /\ LimReturn(p, "ctx_err")
    /\ UNCHANGED <<perHost, burst, limiters, dlmu, lnow, lcalls, created,
                   overridden>>

\* SetLimit: Lock; a missing bucket is created with the given rate and burst
\* and the lock released, an existing one is updated in the next two steps.
SetLimitLock(p) ==
    /\ lpc[p] = "set_lock"
    /\ dlmu = 0
    /\ LET d == lcall[p].url
       IN  /\ overridden' = [overridden EXCEPT ![d] = TRUE]
           /\ IF limiters[d] # 0
              THEN /\ dlmu' = p
                   /\ llim' = [llim EXCEPT ![p] = limiters[d]]
                   /\ lpc' = [lpc EXCEPT ![p] = "set_rate"]
                   /\ UNCHANGED <<buckets, limiters, created, lcall, lrsv,
                                  lastRet>>
              ELSE /\ buckets' = Append(buckets,
                                        NewLimiter(lcall[p].period,
                                                   lcall[p].burst))
                   /\ limiters' = [limiters EXCEPT ![d] = Len(buckets) + 1]
                   /\ created' = [created EXCEPT ![d] = @ + 1]
                   /\ LimReturn(p, "done")
                   /\ UNCHANGED dlmu
    /\ UNCHANGED <<perHost, burst, lnow, lcalls, admitted>>

\* SetLimit: limiter.SetLimit(rate.Limit(requestsPerSecond))
SetLimitRate(p) ==
    /\ lpc[p] = "set_rate"
    /\ buckets' = [buckets EXCEPT ![llim[p]] =
                      [@ EXCEPT !.tokens = Advance(buckets[llim[p]], lnow),
                                !.last = lnow,
                                !.period = lcall[p].period]]
    /\ lpc' = [lpc EXCEPT ![p] = "set_burst"]
    /\ UNCHANGED <<perHost, burst, limiters, dlmu, lnow, lcall, llim, lrsv,
                   lastRet, lcalls, admitted, created, overridden>>

\* SetLimit: limiter.SetBurst(burst), then the deferred Unlock
SetLimitBurst(p) ==
    /\ lpc[p] = "set_burst"
    /\ buckets' = [buckets EXCEPT ![llim[p]] =
                      [@ EXCEPT !.tokens = Advance(buckets[llim[p]], lnow),
                                !.last = lnow,
                                !.burst = lcall[p].burst]]
    /\ dlmu' = 0
    /\ LimReturn(p, "done")
    /\ UNCHANGED <<perHost, burst, limiters, lnow, lcalls, admitted, created,
                   overridden>>

\* time passes
LimTick ==
    /\ lnow < MaxLimTime
    /\ lnow' = lnow + 1
    /\ UNCHANGED <<perHost, burst, limiters, buckets, dlmu, lpc, lcall, llim,
                   lrsv, lastRet, lcalls, admitted, created, overridden>>

\* ------------------------------------------------------------------------
\* Properties of the rate limiter
\* ------------------------------------------------------------------------
\* how many calls of a list of grant times fall in the window from t1 to t2
AdmittedIn(list, t1, t2) ==
    Cardinality({k \in 1..Len(list) : t1 <= list[k] /\ list[k] <= t2})

\* C18: a bucket with the limiter's rate R = 1/perHost and burst B = burst
\* is a token bucket: the first B calls are granted without waiting, the
\* (B+1)-th no earlier than 1/R after the first, and any window of length t
\* holds at most B + R*t grants.
C18_TokenBucket ==
    [][\A h \in Hosts :
          (limiters'[h] # 0 /\ ~overridden'[h])
          => LET H == admitted'[h]
             IN  /\ (Len(H) = Len(admitted[h]) + 1 /\ Len(H) <= burst)
                    => H[Len(H)] = lnow
                 /\ Len(H) >= burst + 1 => H[burst + 1] >= H[1] + perHost
                 /\ \A i, j \in 1..Len(H) :
                       H[i] <= H[j]
                       => AdmittedIn(H, H[i], H[j]) * perHost
                             <= burst * perHost + (H[j] - H[i])
      ]_vars

\* C18 witness: burst + 1 calls made at the same instant on a fresh bucket;
\* the last one waited, was granted 1/R later and its Wait has returned nil.
C18_Witness ==
    \E h \in Hosts :
       /\ ~overridden[h]
       /\ perHost = 2
       /\ Len(admitted[h]) = burst + 1
       /\ admitted[h][burst] = 0
       /\ admitted[h][burst + 1] = perHost
       /\ lnow = perHost
       /\ lastRet = [op |-> "Wait", url |-> "http://a.test/1", value |-> "nil"]

\* the urls from which no host can be extracted
NoHostURLs == {"http://%zz", "/no/host"}

\* C19: a Wait or Allow for a url without a host returns nil or true in its
\* first step, never reaching getLimiter: no bucket is created or changed,
\* no call is admitted on any host, no time passes and no lock is awaited.
C19_FailOpenWithoutHost ==
    [][/\ \A p \in LimCallers :
             lcall'[p].op \in {"Wait", "Allow", "Reserve"}
             => lcall'[p].url \notin NoHostURLs
       /\ limiters'[NoHost] = 0
       /\ (lcalls' = lcalls + 1 /\ lcall' = lcall)
          => /\ lastRet'.url \in NoHostURLs
             /\ lastRet'.op = "Wait" => lastRet'.value = "nil"
             /\ lastRet'.op = "Allow" => lastRet'.value = "true"
             /\ UNCHANGED <<limiters, buckets, admitted, created, lnow, lpc,
                            llim, dlmu>>
      ]_vars

\* C19 witness: with the bucket of a.test drained, a Wait for a url without
\* a host has just returned nil at the same instant.
C19_Witness ==
    /\ limiters["a.test"] # 0
    /\ buckets[limiters["a.test"]].tokens = 0
    /\ lnow = 0
    /\ lcalls = MaxLimCalls
    /\ lastRet = [op |-> "Wait", url |-> "/no/host", value |-> "nil"]

\* C20: at most one bucket is ever stored for a host, a stored bucket is
\* never replaced or removed, and every caller works on the bucket the map
\* holds for its host.
C20_OneBucketPerHost ==
    [][/\ \A h \in Domains :
             /\ created'[h] <= 1
             /\ limiters[h] # 0 => limiters'[h] = limiters[h]
       /\ \A p \in LimCallers :
             llim'[p] # 0 => llim'[p] = limiters'[DomainOf(lcall'[p])]
       /\ Len(buckets') = Cardinality({h \in Domains : limiters'[h] # 0})
      ]_vars

\* C20 witness: two callers missed the same host in the map; one has created
\* the bucket and holds it, the other is about to look again under the lock.
C20_Witness ==
    \E p, q \in LimCallers :
       /\ p # q
       /\ lpc[p] = "create"
       /\ lpc[q] = "op"
       /\ DomainOf(lcall[p]) = DomainOf(lcall[q])
       /\ created[DomainOf(lcall[p])] = 1
       /\ llim[q] = limiters[DomainOf(lcall[p])]

\* the rate and burst pairs a bucket is meant to have: the limiter's own
\* pair, or a pair given to SetLimit
WholePairs ==
    {<<perHost, burst>>} \cup {<<a.period, a.burst>> : a \in SetLimitArgs}

\* C21: a Wait, Allow or Reserve is served by a bucket whose rate and burst
\* are both the old ones or both the new ones of a SetLimit, never the new
\* rate with the old burst or the old rate with the new burst.
C21_SetLimitAtomic ==
    [][\A p \in LimCallers :
          (lpc[p] = "op" /\ lpc'[p] # "op")
          => <<buckets[llim[p]].period, buckets[llim[p]].burst>>
                \in WholePairs
      ]_vars

\* ========================================================================
\* Hybrid strategy selector
\* ========================================================================
\* A document is a sequence of fragments of markup and text. "React" and
\* "<DIV" differ from a needle by case only; "member" holds "ember".
HtmlTokens == {"<div", "<DIV", "React", "vue", "ng-app", "member", "svelte"}
Htmls == UNION {[1..n -> HtmlTokens] : n \in 0..MaxHtmlLen}
ScriptCounts == 0..MaxScripts

StrategyStatic == "Static"
StrategyHybrid == "Hybrid"
StrategyDynamic == "Dynamic"
NoStrategy == "none"

\* strings.ToLower, fragment by fragment
ToLower(h) ==
    [i \in 1..Len(h) |->
        CASE h[i] = "React" -> "react"
          [] h[i] = "<DIV" -> "<div"
          [] OTHER -> h[i]]

\* the needles that occur in a fragment, byte for byte
NeedlesIn(tok) ==
    CASE tok = "<div" -> {"<div"}
      [] tok = "react" -> {"react"}
      [] tok = "vue" -> {"vue"}
      [] tok = "ng-app" -> {"ng-app"}
      [] tok = "member" -> {"ember"}
      [] tok = "svelte" -> {"svelte"}
      [] OTHER -> {}

\* strings.Contains and strings.Count
Contains(h, needle) == \E i \in 1..Len(h) : needle \in NeedlesIn(h[i])
Count(h, needle) ==
    Cardinality({i \in 1..Len(h) : needle \in NeedlesIn(h[i])})

\* DetectJavaScriptFramework
DetectJavaScriptFramework(h) ==
    LET l == ToLower(h)
    IN  IF Contains(l, "react") \/ Contains(l, "_react") THEN "React"
        ELSE IF Contains(l, "vue") \/ Contains(l, "vuejs") THEN "Vue"
        ELSE IF Contains(l, "angular") \/ Contains(l, "ng-app")
        THEN "Angular"
        ELSE IF Contains(l, "ember") THEN "Ember"
        ELSE IF Contains(l, "svelte") THEN "Svelte"
        ELSE "Unknown"

\* the script count above which a page is taken to need JavaScript, and the
\* number of "<div" below which it has too little markup
ScriptThreshold == 5
MinDivs == 3

\* A faulty variant: the script count alone never decides.
NeedsJavaScriptNoThreshold(h, sc) ==
    IF DetectJavaScriptFramework(h) # "Unknown" THEN TRUE
    ELSE IF Count(h, "<div") < MinDivs /\ sc > 0 THEN TRUE
    ELSE FALSE

\* A faulty variant: exactly MinDivs "<div" still count as too little markup.
NeedsJavaScriptDivsOffByOne(h, sc) ==
    IF sc > ScriptThreshold THEN TRUE
    ELSE IF DetectJavaScriptFramework(h) # "Unknown" THEN TRUE
    ELSE IF Count(h, "<div") <= MinDivs /\ sc > 0 THEN TRUE
    ELSE FALSE

\* NeedsJavaScript
NeedsJavaScript(h, sc) ==
    IF sc > ScriptThreshold THEN TRUE
    ELSE IF DetectJavaScriptFramework(h) # "Unknown" THEN TRUE
    ELSE IF Count(h, "<div") < MinDivs /\ sc > 0 THEN TRUE
    ELSE FALSE

\* DetermineStrategy
DetermineStrategy(h, sc) ==
    IF sc = 0 THEN StrategyStatic
    ELSE IF NeedsJavaScript(h, sc) THEN StrategyDynamic
    ELSE IF sc > 0 THEN StrategyHybrid
    ELSE StrategyStatic

\* a document and the number of its script tags, before the call
NewStrategyCall ==
    /\ html \in Htmls
    /\ scriptCount \in ScriptCounts
    /\ strategy = NoStrategy

\* The variables of the selector while another component is examined.
StrategyParked ==
    /\ html = <<>>
    /\ scriptCount = 0
    /\ strategy = NoStrategy

\* DetermineStrategy(html, scriptCount) is called and returns.
DetermineStrategyCall ==
    /\ strategy = NoStrategy
    /\ strategy' = DetermineStrategy(html, scriptCount)
    /\ UNCHANGED <<html, scriptCount>>

\* ------------------------------------------------------------------------
\* Properties of the strategy selector
\* ------------------------------------------------------------------------
\* the fragments in which a framework signature occurs once lower-cased
SignatureTokens == {"React", "vue", "ng-app", "member", "svelte"}
HasSignature(h) == \E i \in 1..Len(h) : h[i] \in SignatureTokens
DivCount(h) == Cardinality({i \in 1..Len(h) : h[i] = "<div"})

\* C22: DetermineStrategy returns Static exactly when scriptCount is 0;
\* otherwise Dynamic exactly when scriptCount exceeds 5, a framework
\* signature occurs in the markup or "<div" occurs fewer than 3 times;
\* otherwise Hybrid.
C22_DecisionTable ==
    strategy # NoStrategy
    => /\ strategy \in {StrategyStatic, StrategyHybrid, StrategyDynamic}
       /\ strategy = StrategyStatic <=> scriptCount = 0
       /\ scriptCount # 0
          => (strategy = StrategyDynamic
              <=> \/ scriptCount > 5
                  \/ HasSignature(html)
                  \/ DivCount(html) < 3)
       /\ (scriptCount # 0 /\ strategy # StrategyDynamic)
          => strategy = StrategyHybrid

\* C22 witness: three "<div" and a signature that differs by case, with two
\* scripts, gave Dynamic.
C22_Witness ==
    /\ strategy = StrategyDynamic
    /\ scriptCount = 2
    /\ DivCount(html) = 3
    /\ html[Len(html)] = "React"

\* C23 as stated: one or two scripts and no framework signature give Hybrid.
C23_FewScriptsGiveHybrid ==
    (strategy # NoStrategy /\ scriptCount \in {1, 2} /\ ~HasSignature(html))
    => strategy = StrategyHybrid

\* C23 amended: one or two scripts, no framework signature and at least
\* three "<div" give Hybrid.
C23_FewScriptsAndMarkupGiveHybrid ==
    (/\ strategy # NoStrategy
     /\ scriptCount \in {1, 2}
     /\ ~HasSignature(html)
     /\ DivCount(html) >= 3)
    => strategy = StrategyHybrid

\* C23 witness: exactly three "<div", an upper-case "<DIV", one script.
C23_Witness ==
    /\ strategy = StrategyHybrid
    /\ scriptCount = 1
    /\ DivCount(html) = 3
    /\ Len(html) = 4
    /\ html[1] = "<DIV"

\* ========================================================================
\* Proxy pool
\* ========================================================================
ProxyNames == {"p1", "p2", "p3"}
NoProxy == ""
ProxyLists == UNION {[1..n -> ProxyNames] : n \in 0..MaxProxies}

\* 5*time.Minute, in minutes
Cooldown == 5

\* no entry in p.failed, and no GetNext call in progress
NotFailed == -1
NotInGetNext == [start |-> -1, iters |-> 0]

\* NewProxyPool(proxies)
NewProxyPool ==
    /\ proxies \in ProxyLists
    /\ pindex = 0
    /\ failed = [x \in ProxyNames |-> NotFailed]
    /\ pnow = 0
    /\ gn = NotInGetNext
    /\ pret = [proxy |-> NoProxy, calls |-> 0]
    /\ pops = 0
    /\ markedAt = [x \in ProxyNames |-> NotFailed]
    /\ everMarked = FALSE

\* The variables of the proxy pool while another component is examined.
ProxyPoolParked ==
    /\ proxies = <<>>
    /\ pindex = 0
    /\ failed = [x \in ProxyNames |-> NotFailed]
    /\ pnow = 0
    /\ gn = NotInGetNext
    /\ pret = [proxy |-> NoProxy, calls |-> 0]
    /\ pops = 0
    /\ markedAt = [x \in ProxyNames |-> NotFailed]
    /\ everMarked = FALSE

\* A faulty variant: the index stops at the end of the list.
NextIndexNoWrap(i, n) == IF i + 1 < n THEN i + 1 ELSE i

\* (p.index + 1) % len(p.proxies)
NextIndex(i, n) == (i + 1) % n

\* time.Since(failTime) < 5*time.Minute
FailedRecently(failTime) == pnow - failTime < Cooldown

\* GetNext returns proxy x.
GetNextReturn(x) ==
    /\ pret' = [proxy |-> x, calls |-> pret.calls + 1]
    /\ gn' = NotInGetNext

\* GetNext: Lock; an empty pool returns "" at once, otherwise start is set
\* and the loop is entered.
GetNextStart ==
    /\ gn.start = -1
    /\ pops < MaxProxyOps
    /\ pops' = pops + 1
    /\ IF Len(proxies) = 0
       THEN GetNextReturn(NoProxy)
       ELSE /\ gn' = [start |-> pindex, iters |-> 0]
            /\ UNCHANGED pret
    /\ UNCHANGED <<proxies, pindex, failed, pnow, markedAt, everMarked>>

\* GetNext: one turn of the loop.
GetNextLoop ==
    /\ gn.start # -1
    /\ LET proxy == proxies[pindex + 1]
           next == NextIndex(pindex, Len(proxies))
       IN  /\ pindex' = next
           /\ IF failed[proxy] # NotFailed
              THEN IF FailedRecently(failed[proxy])
                   THEN /\ IF next = gn.start
                           THEN GetNextReturn(proxy)
                           ELSE /\ gn' = [gn EXCEPT !.iters = @ + 1]
                                /\ UNCHANGED pret
                        /\ UNCHANGED failed
                   ELSE /\ failed' = [failed EXCEPT ![proxy] = NotFailed]
                        /\ GetNextReturn(proxy)
              ELSE /\ GetNextReturn(proxy)
                   /\ UNCHANGED failed
    /\ UNCHANGED <<proxies, pnow, pops, markedAt, everMarked>>

\* MarkFailed(proxy)
MarkFailed(x) ==
    /\ gn.start = -1
    /\ pops < MaxProxyOps
    /\ pops' = pops + 1
    /\ failed' = [failed EXCEPT ![x] = pnow]
    /\ markedAt' = [markedAt EXCEPT ![x] = pnow]
    /\ everMarked' = TRUE
    /\ UNCHANGED <<proxies, pindex, pnow, gn, pret>>

\* A faulty variant: the entry of the proxy stays in p.failed.
MarkHealthyNoop(x) ==
    /\ gn.start = -1
    /\ pops < MaxProxyOps
    /\ pops' = pops + 1
    /\ markedAt' = [markedAt EXCEPT ![x] = NotFailed]
    /\ UNCHANGED <<proxies, pindex, failed, pnow, gn, pret, everMarked>>

\* MarkHealthy(proxy)
MarkHealthy(x) ==
    /\ gn.start = -1
    /\ pops < MaxProxyOps
    /\ pops' = pops + 1
    /\ failed' = [failed EXCEPT ![x] = NotFailed]
    /\ markedAt' = [markedAt EXCEPT ![x] = NotFailed]
    /\ UNCHANGED <<proxies, pindex, pnow, gn, pret, everMarked>>

\* a minute passes; the clock is taken not to advance within one GetNext
ProxyTick ==
    /\ gn.start = -1
    /\ pnow < MaxProxyTime
    /\ pnow' = pnow + 1
    /\ UNCHANGED <<proxies, pindex, failed, gn, pret, pops, markedAt,
                   everMarked>>

\* ------------------------------------------------------------------------
\* Properties of the proxy pool
\* ------------------------------------------------------------------------
\* C24: while no proxy was ever marked failed, the k-th GetNext returns the
\* proxy at index (k-1) mod n, and the index stays within 0..n-1; GetNext
\* on an empty pool returns the empty string.
C24_RoundRobin ==
    LET n == Len(proxies)
    IN  /\ n > 0 => pindex \in 0..(n - 1)
        /\ (n > 0 /\ ~everMarked /\ pret.calls > 0)
           => pret.proxy = proxies[((pret.calls - 1) % n) + 1]
        /\ (n = 0 /\ pret.calls > 0) => pret.proxy = NoProxy

\* C24 witness: the call after a full round returned the first proxy again.
C24_Witness ==
    /\ Len(proxies) >= 2
    /\ proxies[1] # proxies[2]
    /\ ~everMarked
    /\ pret.calls = Len(proxies) + 1
    /\ pret.proxy = proxies[1]

\* marked failed within the cooldown and not since marked healthy
CurrentlyFailed(x) ==
    markedAt[x] # NotFailed /\ pnow - markedAt[x] < Cooldown

\* the offsets from index s, in turn, at which a proxy is not failed
HealthyOffsets(s) ==
    {k \in 0..(Len(proxies) - 1) :
        ~CurrentlyFailed(proxies[((s + k) % Len(proxies)) + 1])}

Min(S) == CHOOSE m \in S : \A k \in S : m <= k

\* C25: on a non-empty pool GetNext ends within n turns of its loop and
\* returns a member of the list: the first proxy, in turn from the index,
\* that is not currently failed, and if every proxy is currently failed the
\* last one of the full cycle.
C25_SkipsFailed ==
    [][/\ gn'.iters < Len(proxies) \/ Len(proxies) = 0
       /\ (gn.start # -1 /\ gn'.start = -1)
          => LET n == Len(proxies)
                 s == gn.start
             IN  /\ \E i \in 1..n : pret'.proxy = proxies[i]
                 /\ IF HealthyOffsets(s) # {}
                    THEN /\ pret'.proxy =
                               proxies[((s + Min(HealthyOffsets(s))) % n) + 1]
                         /\ pindex' = (s + Min(HealthyOffsets(s)) + 1) % n
                         /\ ~CurrentlyFailed(pret'.proxy)
                    ELSE /\ pret'.proxy = proxies[((s + n - 1) % n) + 1]
                         /\ pindex' = s
      ]_vars

\* C25 witness: with the second proxy failed and the first marked healthy
\* again, GetNext has returned the first.
C25_Witness ==
    /\ Len(proxies) = 2
    /\ proxies[1] # proxies[2]
    /\ CurrentlyFailed(proxies[2])
    /\ markedAt[proxies[1]] = NotFailed
    /\ everMarked
    /\ pops = 4
    /\ pret = [proxy |-> proxies[1], calls |-> 1]
    /\ gn.start = -1

\* ========================================================================
\* Fetch batch (batch.Scraper.ScrapeBatch)
\* ========================================================================
\* a request with a host, and one whose URL does not parse
BatchURLs == {"http://a.test/1", "http://%zz"}
RequestLists == UNION {[1..n -> BatchURLs] : n \in 0..MaxBatchReqs}
NoGroup == "none"

\* GroupByDomain: the key a request is grouped under
GroupKey(u) == IF ~ParseURL(u).ok THEN "default" ELSE ParseURL(u).Host

\* GroupByDomain(requests): the keys, and the requests of a key in order
GroupKeys(reqs) == {GroupKey(reqs[i]) : i \in 1..Len(reqs)}
GroupRequests(reqs, d) ==
    SelectSeq([i \in 1..Len(reqs) |-> i], LAMBDA i : GroupKey(reqs[i]) = d)

\* the jobs of group d whose goroutine has not yet taken its token back out
\* of the group's semaphore
SemHolders(d) ==
    {i \in 1..Len(requests) :
        /\ GroupKey(requests[i]) = d
        /\ bjob[i] \in {"fetching", "send", "release"}}

\* ScrapeBatch(ctx, requests) has returned the results channel and started
\* its goroutine.
NewScrapeBatch ==
    /\ requests \in RequestLists
    /\ bconc \in 1..MaxBatchConc
    /\ bctxDone = FALSE
    /\ bgroups = GroupKeys(requests)
    /\ bcur = [domain |-> NoGroup, rest |-> <<>>]
    /\ bpcd = "groups"
    /\ bwg = 0
    /\ bjob = [i \in 1..Len(requests) |-> "unstarted"]
    /\ bout = [i \in 1..Len(requests) |-> "none"]
    /\ bresults = <<>>
    /\ bclosed = FALSE
    /\ bgot = <<>>
    /\ brange = "ranging"
    /\ crashed = FALSE

\* The variables of the fetch batch while another component is examined.
ScrapeBatchParked ==
    /\ requests = <<>>
    /\ bconc = 1
    /\ bctxDone = FALSE
    /\ bgroups = {}
    /\ bcur = [domain |-> NoGroup, rest |-> <<>>]
    /\ bpcd = "groups"
    /\ bwg = 0
    /\ bjob = <<>>
    /\ bout = <<>>
    /\ bresults = <<>>
    /\ bclosed = FALSE
    /\ bgot = <<>>
    /\ brange = "ranging"
    /\ crashed = FALSE

\* the caller cancels ctx
BatchCancel ==
    /\ ~crashed
    /\ ~bctxDone
    /\ bpcd # "returned"
    /\ bctxDone' = TRUE
    /\ UNCHANGED <<requests, bconc, bgroups, bcur, bpcd, bwg, bjob, bout,
                   bresults, bclosed, bgot, brange, crashed>>

\* A faulty variant: the turn of a group does not look at ctx.
BatchNextGroupIgnoresCtx ==
    /\ ~crashed
    /\ bpcd = "groups"
    /\ IF bgroups = {}
       THEN /\ bpcd' = "wait"
            /\ UNCHANGED <<bgroups, bcur>>
       ELSE \E d \in bgroups :
               /\ bgroups' = bgroups \ {d}
               /\ bpcd' = "add"
               /\ bcur' = [domain |-> d,
                           rest |-> GroupRequests(requests, d)]
    /\ UNCHANGED <<requests, bconc, bctxDone, bwg, bjob, bout, bresults,
                   bclosed, bgot, brange, crashed>>

\* for domain, groupRequests := range domainGroups, in map order, and the
\* select on ctx.Done() that opens each turn
BatchNextGroup ==
    /\ ~crashed
    /\ bpcd = "groups"
    /\ IF bgroups = {}
       THEN /\ bpcd' = "wait"
            /\ UNCHANGED <<bgroups, bcur>>
       ELSE \E d \in bgroups :
               /\ bgroups' = bgroups \ {d}
               /\ IF bctxDone
                  THEN /\ bpcd' = "wait"
                       /\ UNCHANGED bcur
                  ELSE /\ bpcd' = "add"
                       /\ bcur' = [domain |-> d,
                                   rest |-> GroupRequests(requests, d)]
    /\ UNCHANGED <<requests, bconc, bctxDone, bwg, bjob, bout, bresults,
                   bclosed, bgot, brange, crashed>>

\* for _, req := range groupRequests { wg.Add(1) ...
BatchAdd ==
    /\ ~crashed
    /\ bpcd = "add"
    /\ IF bcur.rest = <<>>
       THEN /\ bpcd' = "groups"
            /\ bcur' = [domain |-> NoGroup, rest |-> <<>>]
            /\ UNCHANGED bwg
       ELSE /\ bpcd' = "sem"
            /\ bwg' = bwg + 1
            /\ UNCHANGED bcur
    /\ UNCHANGED <<requests, bconc, bctxDone, bgroups, bjob, bout, bresults,
                   bclosed, bgot, brange, crashed>>

\* ... sem <- struct{}{}; go func(r, d) {...}(req, domain) }
BatchSem ==
    /\ ~crashed
    /\ bpcd = "sem"
    /\ Cardinality(SemHolders(bcur.domain)) < bconc
    /\ bjob' = [bjob EXCEPT ![Head(bcur.rest)] = "fetching"]
    /\ bcur' = [bcur EXCEPT !.rest = Tail(@)]
    /\ bpcd' = "add"
    /\ UNCHANGED <<requests, bconc, bctxDone, bgroups, bwg, bout, bresults,
                   bclosed, bgot, brange, crashed>>

\* data, err := s.scraper.Fetch(r): it returns data, returns an error, or
\* panics. Nothing recovers a panic in this goroutine, so after its deferred
\* calls the runtime ends the process.
JobFetch(i) ==
    /\ ~crashed
    /\ bjob[i] = "fetching"
    /\ \E o \in {"ok", "err", "panic"} :
          /\ bout' = [bout EXCEPT ![i] = o]
          /\ IF o = "panic"
             THEN /\ crashed' = TRUE
                  /\ bjob' = [bjob EXCEPT ![i] = "panicked"]
             ELSE /\ bjob' = [bjob EXCEPT ![i] = "send"]
                  /\ UNCHANGED crashed
    /\ UNCHANGED <<requests, bconc, bctxDone, bgroups, bcur, bpcd, bwg,
                   bresults, bclosed, bgot, brange>>

\* results <- models.ScrapeResult{Data: data, Error: err}; a send on a
\* closed channel panics.
JobSend(i) ==
    /\ ~crashed
    /\ bjob[i] = "send"
    /\ IF bclosed
       THEN /\ crashed' = TRUE
            /\ UNCHANGED <<bresults, bjob>>
       ELSE /\ Len(bresults) < Len(requests)
            /\ bresults' = Append(bresults,
                                  [req |-> i, Error |-> bout[i] = "err"])
            /\ bjob' = [bjob EXCEPT ![i] = "release"]
            /\ UNCHANGED crashed
    /\ UNCHANGED <<requests, bconc, bctxDone, bgroups, bcur, bpcd, bwg, bout,
                   bclosed, bgot, brange>>

\* defer func() { <-sem }()
JobRelease(i) ==
    /\ ~crashed
    /\ bjob[i] = "release"
    /\ bjob' = [bjob EXCEPT ![i] = "done"]
    /\ UNCHANGED <<requests, bconc, bctxDone, bgroups, bcur, bpcd, bwg, bout,
                   bresults, bclosed, bgot, brange, crashed>>

\* defer wg.Done()
JobDone(i) ==
    /\ ~crashed
    /\ bjob[i] = "done"
    /\ bjob' = [bjob EXCEPT ![i] = "exited"]
    /\ bwg' = bwg - 1
    /\ UNCHANGED <<requests, bconc, bctxDone, bgroups, bcur, bpcd, bout,
                   bresults, bclosed, bgot, brange, crashed>>

\* A faulty variant: the channel is closed without waiting for the jobs.
BatchCloseNoWait ==
    /\ ~crashed
    /\ bpcd = "wait"
    /\ bclosed' = TRUE
    /\ bpcd' = "returned"
    /\ UNCHANGED <<requests, bconc, bctxDone, bgroups, bcur, bwg, bjob, bout,
                   bresults, bgot, brange, crashed>>

\* wg.Wait(); close(results)
BatchWaitClose ==
    /\ ~crashed
    /\ bpcd = "wait"
    /\ bwg = 0
    /\ bclosed' = TRUE
    /\ bpcd' = "returned"
    /\ UNCHANGED <<requests, bconc, bctxDone, bgroups, bcur, bwg, bjob, bout,
                   bresults, bgot, brange, crashed>>

\* the caller's for res := range results
BatchCollect ==
    /\ ~crashed
    /\ brange = "ranging"
    /\ IF bresults # <<>>
       THEN /\ bgot' = Append(bgot, Head(bresults))
            /\ bresults' = Tail(bresults)
            /\ UNCHANGED brange
       ELSE /\ bclosed
            /\ brange' = "ended"
            /\ UNCHANGED <<bgot, bresults>>
    /\ UNCHANGED <<requests, bconc, bctxDone, bgroups, bcur, bpcd, bwg, bjob,
                   bout, bclosed, crashed>>

\* the steps of the goroutine of ScrapeBatch, of its jobs and of the caller
BatchStep ==
    \/ BatchNextGroup
    \/ BatchAdd
    \/ BatchSem
    \/ BatchWaitClose
    \/ BatchCollect
    \/ \E i \in 1..Len(requests) :
          JobFetch(i) \/ JobSend(i) \/ JobRelease(i) \/ JobDone(i)

\* ------------------------------------------------------------------------
\* Properties of the fetch batch
\* ------------------------------------------------------------------------
\* the results the caller has received for request i
ResultsFor(i) == {k \in 1..Len(bgot) : bgot[k].req = i}

\* C26: with ctx never cancelled and no Fetch panic, the batch never gets
\* stuck before the caller's range loop ends, the channel is closed only
\* after every result was sent, and when the loop ends the caller has
\* exactly one result per request, with Error set exactly for the requests
\* whose Fetch returned an error.
C26_OneResultPerRequest ==
    (~bctxDone /\ ~crashed)
    => /\ brange # "ended" => ENABLED BatchStep
       /\ bclosed => Len(bresults) + Len(bgot) = Len(requests)
       /\ brange = "ended"
          => /\ Len(bgot) = Len(requests)
             /\ \A i \in 1..Len(requests) :
                   /\ Cardinality(ResultsFor(i)) = 1
                   /\ \A k \in ResultsFor(i) :
                         bgot[k].Error <=> bout[i] = "err"

\* C26 witness: two requests of one domain with concurrency 1; the first
\* Fetch returned an error, the second a page; the caller's loop has ended.
C26_Witness ==
    /\ Len(requests) = 2
    /\ GroupKey(requests[1]) = GroupKey(requests[2])
    /\ bconc = 1
    /\ ~bctxDone
    /\ bout[1] = "err"
    /\ bout[2] = "ok"
    /\ brange = "ended"

\* C27: a Fetch that panics is caught and becomes a failed result for its
\* request: the process goes on and the job sends a result with an error.
C27_FetchPanicBecomesFailedResult ==
    \A i \in 1..Len(requests) :
       bout[i] = "panic"
       => /\ ~crashed
          /\ bjob[i] \in {"send", "release", "done", "exited"}

\* the requests whose Fetch call is in flight
InFlight == {i \in 1..Len(requests) : bjob[i] = "fetching"}

\* C31: the Fetch calls in flight, counted over all domain groups together,
\* never exceed s.concurrency.
C31_GlobalFetchCeiling == Cardinality(InFlight) <= bconc

\* the started jobs that have run to their end
Exited == {i \in 1..Len(requests) : bjob[i] = "exited"}

\* C35: with no Fetch panic, a dispatcher that finds ctx cancelled at the
\* top of a group turn starts nothing more and goes to wait for the jobs;
\* from then on no further Fetch starts; a job with a result can always
\* send it; the batch is never stuck before the channel is closed; the
\* channel is closed only when every started job has delivered; and the
\* results never outnumber the requests.
C35_CancelledBatchWindsDown ==
    /\ [](~crashed =>
            /\ \A i \in 1..Len(requests) :
                  bjob[i] = "send" => ENABLED JobSend(i)
            /\ ~bclosed => ENABLED BatchStep
            /\ bclosed
                  => /\ \A i \in 1..Len(requests) :
                           bjob[i] \in {"unstarted", "exited"}
                     /\ Len(bresults) + Len(bgot) = Cardinality(Exited)
            /\ Len(bresults) + Len(bgot) <= Len(requests))
    /\ [][/\ (bpcd = "groups" /\ bctxDone /\ bpcd' # "groups")
                => bpcd' = "wait" /\ bjob' = bjob
          /\ bpcd \in {"wait", "returned"}
                => /\ bpcd' \in {"wait", "returned"}
                   /\ \A i \in 1..Len(requests) :
                         bjob[i] = "unstarted" => bjob'[i] = "unstarted"
         ]_vars

\* C35 witness: two requests in two groups; ctx was cancelled while the
\* first group's Fetch ran; the second request was never started; the one
\* result was delivered, the channel closed and the caller's loop ended.
C35_Witness ==
    /\ bctxDone
    /\ ~crashed
    /\ Len(requests) = 2
    /\ \E i \in 1..2 : bjob[i] = "unstarted"
    /\ \E i \in 1..2 : bjob[i] = "exited"
    /\ bclosed
    /\ brange = "ended"
    /\ Len(bgot) = 1

\* ========================================================================
\* Construction of the browser pool (NewBrowserPool)
\* ========================================================================
\* the values of opts.Size given to NewBrowserPool
RequestedSizes == (-1)..MaxRequestedSize

\* the size used for opts.Size <= 0, and the largest size
DefaultPoolSize == 3
MaxPoolSize == 10

\* A faulty variant: a large size is used as it is.
ClampSizeNoMax(s) == IF s <= 0 THEN DefaultPoolSize ELSE s

\* if opts.Size <= 0 { opts.Size = 3 }; if opts.Size > 10 { opts.Size = 10 }
ClampSize(s) ==
    LET d == IF s <= 0 THEN DefaultPoolSize ELSE s
    IN  IF d > MaxPoolSize THEN MaxPoolSize ELSE d

\* NewBrowserPool(opts) is called.
NewPoolCall ==
    np \in [pc : {"start"}, requested : RequestedSizes, size : {0},
            cap : {0}, len : {0}, i : {0}, closed : {FALSE}]

\* The variable of the constructor while another component is examined.
NewPoolParked ==
    np = [pc |-> "start", requested |-> 0, size |-> 0, cap |-> 0, len |-> 0,
          i |-> 0, closed |-> FALSE]

\* the size is clamped and the pool made with an empty channel of that
\* capacity
NewPoolMake ==
    /\ np.pc = "start"
    /\ np' = [np EXCEPT !.pc = "loop",
                        !.size = ClampSize(np.requested),
                        !.cap = ClampSize(np.requested)]

\* for i := 0; i < opts.Size; i++: a context is created and warmed up, and
\* put in the channel; if the warm-up fails the pool is closed (its channel
\* drained) and an error returned. After the loop the pool is returned.
NewPoolContext ==
    /\ np.pc = "loop"
    /\ IF np.i < np.size
       THEN \/ /\ np.len < np.cap
               /\ np' = [np EXCEPT !.len = @ + 1, !.i = @ + 1]
            \/ np' = [np EXCEPT !.pc = "failed", !.len = 0, !.closed = TRUE]
       ELSE np' = [np EXCEPT !.pc = "ready"]

\* Size() and Available() of the pool
PoolSizeOf(p) == p.size
PoolAvailable(p) == p.len

\* ------------------------------------------------------------------------
\* Properties of the construction
\* ------------------------------------------------------------------------
\* C28 as stated: the pool returned has the requested size clamped into
\* 1..10 (a size below 1 gives 1), and Size() and Available() equal it.
C28_SizeClampedFromOne ==
    np.pc = "ready"
    => LET c == IF np.requested < 1 THEN 1
                ELSE IF np.requested > 10 THEN 10
                ELSE np.requested
       IN  PoolSizeOf(np) = c /\ PoolAvailable(np) = c

\* C28 amended: the pool returned has 3 contexts for a requested size of 0
\* or less, 10 for a size above 10 and the requested size otherwise, and
\* Size() and Available() equal that number, which is within 1..10.
C28_SizeDefaultedAndCapped ==
    np.pc = "ready"
    => LET c == IF np.requested <= 0 THEN 3
                ELSE IF np.requested > 10 THEN 10
                ELSE np.requested
       IN  /\ PoolSizeOf(np) = c
           /\ PoolAvailable(np) = c
           /\ c \in 1..10
           /\ ~np.closed

\* C28 witness: a pool asked for with size 0 is ready with 3 contexts.
C28_Witness ==
    /\ np.pc = "ready"
    /\ np.requested = 0
    /\ PoolAvailable(np) = 3

\* ========================================================================
\* Lazy creation of the browser pool (Application.EnsureBrowserPool)
\* ========================================================================
AppCallers == 1..NumAppCallers
NilPool == 0

\* Application.New: no pool yet, on the application or the dynamic scraper
NewApplication ==
    /\ app = [BrowserPool |-> NilPool, poolMu |-> 0, browserPool |-> NilPool,
              created |-> 0, failed |-> 0, calls |-> 0]
    /\ ag = [g \in AppCallers |->
                [pc |-> "idle", synced |-> FALSE, obs |-> "none",
                 ret |-> "none", pool |-> NilPool]]

\* EnsureBrowserPool: a.poolMu.Lock(); if a.BrowserPool != nil, return nil
\* (the deferred Unlock runs). Locking after the creator unlocked orders
\* this goroutine after the creator's writes.
EnsureLock(g) ==
    /\ ag[g].pc = "idle"
    /\ app.calls < MaxAppCalls
    /\ app.poolMu = 0
    /\ IF app.BrowserPool # NilPool
       THEN /\ app' = [app EXCEPT !.calls = @ + 1]
            /\ ag' = [ag EXCEPT ![g].ret = "nil",
                                ![g].synced =
                                    @ \/ app.browserPool # NilPool]
       ELSE /\ app' = [app EXCEPT !.poolMu = g, !.calls = @ + 1]
            /\ ag' = [ag EXCEPT ![g].pc = "create",
                                ![g].synced =
                                    @ \/ app.browserPool # NilPool]

\* EnsureBrowserPool: dynamic.NewBrowserPool returns an error (the call
\* returns it, leaving a.BrowserPool nil) or a pool, stored in a.BrowserPool.
EnsureCreate(g) ==
    /\ ag[g].pc = "create"
    /\ \/ /\ app' = [app EXCEPT !.poolMu = 0, !.failed = @ + 1]
          /\ ag' = [ag EXCEPT ![g].pc = "idle", ![g].ret = "err"]
       \/ /\ app' = [app EXCEPT !.created = @ + 1,
                                !.BrowserPool = app.created + 1]
          /\ ag' = [ag EXCEPT ![g].pc = "attach",
                              ![g].pool = app.created + 1]

\* EnsureBrowserPool: a.DynamicScraper.SetBrowserPool(pool), which writes
\* d.browserPool under d.mu (held by no other code), then return nil and
\* the deferred a.poolMu.Unlock().
EnsureAttach(g) ==
    /\ ag[g].pc = "attach"
    /\ app' = [app EXCEPT !.browserPool = ag[g].pool, !.poolMu = 0]
    /\ ag' = [ag EXCEPT ![g].pc = "idle", ![g].ret = "nil",
                        ![g].synced = TRUE, ![g].pool = NilPool]

\* What "if d.browserPool != nil" of Fetch can read. Fetch does not take
\* d.mu: once SetBrowserPool has written the field, a goroutine that is not
\* ordered after that write races with it, and may read nil, the pool, or
\* the pool's address before the writes that initialised the pool.
Observations(g) ==
    IF app.browserPool = NilPool THEN {"nil"}
    ELSE IF ag[g].synced THEN {"full"}
    ELSE {"nil", "full", "partial"}

\* dynamic Scraper.Fetch reads d.browserPool.
FetchReadPool(g) ==
    /\ ag[g].pc = "idle"
    /\ app.calls < MaxAppCalls
    /\ app' = [app EXCEPT !.calls = @ + 1]
    /\ \E o \in Observations(g) : ag' = [ag EXCEPT ![g].obs = o]

\* ------------------------------------------------------------------------
\* Properties of the lazy creation
\* ------------------------------------------------------------------------
\* C29: at most one pool is created and attached; a call made after a
\* success returns nil; a failed creation leaves the pool absent; and a
\* Fetch sees no pool or the fully created pool, never a partly
\* initialised one.
C29_OnePoolFullyPublished ==
    /\ app.created <= 1
    /\ app.browserPool \in {NilPool, app.BrowserPool}
    /\ app.created = 0 => app.BrowserPool = NilPool
    /\ \A g \in AppCallers : ag[g].obs \in {"none", "nil", "full"}

\* ========================================================================
\* dynamic Scraper.Fetch and the browser pool
\* ========================================================================
\* what chromedp.Run returns: nil, or an error (a failed navigation, the
\* request's timeout), which Fetch handles on one path
RunOutcomes == {"ok", "err"}

\* Application.Close, the caller of BrowserPool.Close while fetches run
AppCloser == 1

NoFetch ==
    [pc |-> "idle", pool |-> FALSE, got |-> NilCtx, rel |-> 0,
     oneOff |-> FALSE, out |-> "none"]

\* No Fetch has been called yet.
FetchParked == fetch = [f \in Fetches |-> NoFetch]

\* Fetch: "if d.browserPool != nil" is read. With a pool, Acquire(timeout)
\* is entered, always with a timeout (0 is replaced by 30 s); without one,
\* the one-off allocator and browser context are created.
FetchStart(f) ==
    /\ fetch[f].pc = "idle"
    /\ fpc[f] = "idle"
    /\ \E bp \in BOOLEAN :
          IF bp
          THEN /\ AcquireStart(f)
               /\ ftimed'[f]
               /\ fetch' = [fetch EXCEPT
                               ![f] = [NoFetch EXCEPT !.pc = "acquire",
                                                      !.pool = TRUE]]
          ELSE /\ fetch' = [fetch EXCEPT
                               ![f] = [NoFetch EXCEPT !.pc = "run",
                                                      !.oneOff = TRUE]]
               /\ UNCHANGED poolVars

\* Acquire inside Fetch: the receive from bp.contexts.
FetchAcquireRecv(f) ==
    /\ fetch[f].pc = "acquire"
    /\ AcquireRecv(f)
    /\ UNCHANGED fetch

\* Acquire times out: "if err != nil { return nil, ... }".
FetchAcquireTimeout(f) ==
    /\ fetch[f].pc = "acquire"
    /\ AcquireTimeout(f)
    /\ fetch' = [fetch EXCEPT ![f].pc = "idle", ![f].out = "err_acquire"]

\* Acquire returns after its closed check: an error makes Fetch return it;
\* a context is kept and "defer d.browserPool.Release(bCtx)" is registered.
FetchAcquireCheck(f) ==
    /\ fetch[f].pc = "acquire"
    /\ AcquireCheck(f)
    /\ fetch' = [fetch EXCEPT
                    ![f] = IF fres'[f] = "ctx"
                           THEN [@ EXCEPT !.pc = "run", !.got = fctx[f]]
                           ELSE IF fres'[f] = "panic"
                           THEN [@ EXCEPT !.pc = "panicked",
                                          !.out = "panic"]
                           ELSE [@ EXCEPT !.pc = "idle",
                                          !.out = "err_acquire"]]

\* A faulty variant: Release is called on the success path only.
FetchRunNoDefer(f) ==
    /\ fetch[f].pc = "run"
    /\ \E r \in RunOutcomes :
          fetch' = [fetch EXCEPT
                       ![f].out = r,
                       ![f].pc = IF fetch[f].pool /\ r = "ok"
                                 THEN "release" ELSE "idle"]
    /\ UNCHANGED poolVars

\* chromedp.Run succeeds or fails and Fetch returns: the deferred calls
\* run, with a pool the Release of bCtx.
FetchRun(f) ==
    /\ fetch[f].pc = "run"
    /\ \E r \in RunOutcomes :
          fetch' = [fetch EXCEPT
                       ![f].out = r,
                       ![f].pc = IF fetch[f].pool
                                 THEN "release" ELSE "idle"]
    /\ UNCHANGED poolVars

\* The deferred Release(bCtx), first half; bCtx is dropped when Fetch has
\* returned.
FetchReleaseCheck(f) ==
    /\ fetch[f].pc = "release"
    /\ ReleaseCheck(f)
    /\ fetch' = [fetch EXCEPT
                    ![f].rel = @ + 1,
                    ![f].pc = IF fpc'[f] = "idle" THEN "idle"
                              ELSE "release",
                    ![f].got = IF fpc'[f] = "idle" THEN NilCtx ELSE @]

\* The deferred Release(bCtx), second half.
FetchReleaseSend(f) ==
    /\ fetch[f].pc = "release"
    /\ ReleaseSend(f)
    /\ fetch' = [fetch EXCEPT
                    ![f].pc = IF fpc'[f] = "panicked" THEN "panicked"
                              ELSE "idle",
                    ![f].out = IF fpc'[f] = "panicked" THEN "panic"
                               ELSE @,
                    ![f].got = NilCtx]

\* The contexts a Fetch has in hand, inside Acquire, while it runs, and
\* inside Release until the context is back in the channel or cancelled
Held == {f \in Fetches : fctx[f] # NilCtx}

\* ------------------------------------------------------------------------
\* Properties of Fetch with a pool
\* ------------------------------------------------------------------------
\* C30: a Fetch that read a pool calls Release exactly once, on the
\* context Acquire gave it, whatever chromedp.Run returned; when Acquire
\* returned an error the Fetch returns an error, releases nothing and
\* creates no one-off browser; and while the pool is open, contexts held
\* plus contexts available are the pool size.
C30_AcquireReleasePaired ==
    /\ \A f \in Fetches :
          fetch[f].pool =>
             /\ ~fetch[f].oneOff
             /\ fetch[f].rel <= 1
             /\ fetch[f].pc \in {"acquire", "run"} => fetch[f].rel = 0
             /\ fetch[f].pc \in {"run", "release"}
                   => fetch[f].got # NilCtx /\ fctx[f] = fetch[f].got
             /\ (fetch[f].pc = "idle" /\ fetch[f].out \in RunOutcomes)
                   => fetch[f].rel = 1 /\ fres[f] = "ctx"
             /\ (fetch[f].pc = "idle" /\ fres[f] = "ctx")
                   => fetch[f].rel = 1 /\ fetch[f].out \in RunOutcomes
             /\ (fetch[f].pc = "idle" /\ fres[f] # "ctx")
                   => fetch[f].rel = 0 /\ fetch[f].out = "err_acquire"
    /\ ~closed => Cardinality(Held) + Available = PoolSize

\* C30 witness: with the pool open, one Fetch returned after chromedp.Run
\* failed and released its context, and another returned the error of
\* an Acquire that timed out.
C30_Witness ==
    /\ ~closed
    /\ \E f, g \in Fetches :
          /\ fetch[f].pc = "idle" /\ fetch[f].pool
          /\ fetch[f].out = "err"
          /\ fres[f] = "ctx"
          /\ fetch[f].rel = 1
          /\ frel[f] = "returned"
          /\ fetch[g].pc = "idle" /\ fetch[g].pool
          /\ fetch[g].out = "err_acquire"
          /\ fres[g] = "err_timeout"
          /\ fetch[g].rel = 0

\* ========================================================================
\* The number of download workers (NewWorkerPool, DownloadBatch)
\* ========================================================================
\* The workers run the same code, so they are counted, not named.
RequestedConcurrency == (-1)..MaxRequestedConc

\* the concurrency used for a request <= 0, and the largest concurrency
DefaultConcurrency == 5
MaxConcurrency == 50

\* A faulty variant: a large concurrency is used as it is.
ClampConcurrencyNoMax(c) == IF c <= 0 THEN DefaultConcurrency ELSE c

\* if concurrency <= 0 { concurrency = 5 }
\* if concurrency > 50 { concurrency = 50 }
ClampConcurrency(c) ==
    LET d == IF c <= 0 THEN DefaultConcurrency ELSE c
    IN  IF d > MaxConcurrency THEN MaxConcurrency ELSE d

NoWorkers ==
    [requested |-> 1, concurrency |-> 1, n |-> 0, pc |-> "start", w |-> 1,
     started |-> 0, busy |-> 0, exited |-> 0, taken |-> 0, ctxDone |-> FALSE]

\* NewWorkerPool(concurrency, ...) has returned the pool and
\* DownloadBatch(ctx, urls, opts) is called on it with n urls.
NewWorkerPoolCall ==
    \E c \in RequestedConcurrency, n \in 0..MaxJobs :
       wq = [NoWorkers EXCEPT !.requested = c,
                              !.concurrency = ClampConcurrency(c),
                              !.n = n]

\* The variable of the count while another component is examined.
WorkersParked == wq = NoWorkers

\* if len(urls) == 0 { return []*DownloadResult{} }
WorkersBatchStart ==
    /\ wq.pc = "start"
    /\ wq' = [wq EXCEPT !.pc = IF wq.n = 0 THEN "returned" ELSE "spawn"]

\* for w := 1; w <= wp.concurrency; w++ { wg.Add(1); go wp.worker(...) };
\* after the loop the goroutine that sends the jobs is started.
WorkersSpawn ==
    /\ wq.pc = "spawn"
    /\ IF wq.w <= wq.concurrency
       THEN wq' = [wq EXCEPT !.started = @ + 1, !.w = @ + 1]
       ELSE wq' = [wq EXCEPT !.pc = "run"]

\* the caller cancels ctx
WorkersCancel ==
    /\ wq.pc = "run"
    /\ ~wq.ctxDone
    /\ wq' = [wq EXCEPT !.ctxDone = TRUE]

\* A worker that is in no Download receives a job from the channel; it
\* returns if ctx is cancelled, else it goes on to Download.
WorkersTake ==
    /\ wq.pc = "run"
    /\ wq.started - wq.busy - wq.exited > 0
    /\ wq.taken < wq.n
    /\ IF wq.ctxDone
       THEN wq' = [wq EXCEPT !.taken = @ + 1, !.exited = @ + 1]
       ELSE wq' = [wq EXCEPT !.taken = @ + 1, !.busy = @ + 1]

\* The Download of a worker ends (a result, or a recovered panic) and the
\* worker goes back to the channel.
WorkersDownloadEnd ==
    /\ wq.pc = "run"
    /\ wq.busy > 0
    /\ wq' = [wq EXCEPT !.busy = @ - 1]

\* A worker finds the channel closed and empty and returns.
WorkersExit ==
    /\ wq.pc = "run"
    /\ wq.taken = wq.n
    /\ wq.started - wq.busy - wq.exited > 0
    /\ wq' = [wq EXCEPT !.exited = @ + 1]

\* wg.Wait() ends, results is closed and DownloadBatch returns.
WorkersReturn ==
    /\ wq.pc = "run"
    /\ wq.exited = wq.started
    /\ wq' = [wq EXCEPT !.pc = "returned"]

\* ------------------------------------------------------------------------
\* Properties of the number of workers
\* ------------------------------------------------------------------------
\* what the concurrency asked for becomes
Normalised ==
    /\ wq.requested <= 0 => wq.concurrency = 5
    /\ wq.requested > 50 => wq.concurrency = 50
    /\ wq.requested \in 1..50 => wq.concurrency = wq.requested

\* C32, as stated: the concurrency is normalised, the Download calls in
\* flight never exceed it, and exactly that many workers are started
\* whatever the number of jobs.
C32_WorkersStartedForAnyBatch ==
    /\ Normalised
    /\ wq.busy <= wq.concurrency
    /\ wq.pc \in {"run", "returned"} => wq.started = wq.concurrency

\* C32, amended: the concurrency is normalised and the Download calls in
\* flight never exceed it; a batch with at least one url starts exactly
\* that many workers whatever the number of urls, each in at most one
\* Download; a batch with no url returns at once and starts none.
C32_WorkersStartedForNonEmptyBatch ==
    /\ Normalised
    /\ wq.busy <= wq.concurrency
    /\ wq.busy + wq.exited <= wq.started
    /\ wq.started <= wq.concurrency
    /\ (wq.pc \in {"run", "returned"} /\ wq.n > 0)
          => wq.started = wq.concurrency
    /\ wq.n = 0 => wq.started = 0

\* C32 witness: 50 workers were started for two urls when more than 50 were
\* asked for, and two of them are in Download.
C32_Witness ==
    /\ wq.requested > 50
    /\ wq.pc = "run"
    /\ wq.n = 2
    /\ wq.started = 50
    /\ wq.busy = 2

\* ========================================================================
\* Downloader.Download: downloadOnce under WithRetry
\* ========================================================================
\* retryConfig of Download: 3 attempts, 1 s doubling up to 10 s, and the
\* status codes 429, 500, 502, 503, 504 (durations in seconds)
DownloadRetryConfig ==
    [MaxAttempts |-> 3, InitialBackoff |-> 1, MaxBackoff |-> 10,
     MultiplierHalves |-> 4,
     RetryableStatusCodes |-> {429, 500, 502, 503, 504}]

\* the response statuses downloadOnce turns into an error, as examples: one
\* the configuration retries and one it does not
BadStatuses == {404, 503}

\* the value of DownloadError.StatusCode when no response was received
NoStatus == 0

\* What the n-th downloadOnce may return besides nil: a fmt.Errorf error
\* (invalid URL, output directory, request creation); a *DownloadError
\* without status code around the error of client.Do (connection failure,
\* timeout) or of the file operations; a *DownloadError with the status of
\* the response. *DownloadError has GetStatusCode, so it is a StatusCoder.
DownloadOnceErrors(n) ==
    {[kind |-> "plain", code |-> 0, n |-> n]}
    \cup {[kind |-> "status", code |-> NoStatus, n |-> n]}
    \cup {[kind |-> "status", code |-> c, n |-> n] : c \in BadStatuses}

\* Download(ctx, fileURL, opts) has been called and WithRetry not yet run.
NewDownload ==
    /\ cfg = DownloadRetryConfig
    /\ rctxDone = FALSE
    /\ attempt = 0
    /\ lastErr = NilErr
    /\ rpc = "loop"
    /\ backoff = 0
    /\ slept = 0
    /\ preCancelled = FALSE
    /\ ret = NoReturn
    /\ errs = <<>>
    /\ sleeps = <<>>

\* One iteration of WithRetry with downloadOnce as fn.
DownloadAttempt ==
    RetryAttemptOf(DownloadOnceErrors(Len(errs) + 1) \cup {NilErr})

\* ------------------------------------------------------------------------
\* Properties of Download
\* ------------------------------------------------------------------------
\* the attempt failed without an HTTP response: connection failure, timeout
NoResponse(e) == e.kind = "status" /\ e.code = NoStatus

\* C33: an attempt that fails with a network or timeout error is retried:
\* unless the context is cancelled, Download returns after such a failure
\* only when all 3 attempts are used up.
C33_NetworkFailureRetried ==
    (rpc = "returned" /\ ~rctxDone /\ errs # <<>>
        /\ NoResponse(errs[Len(errs)]))
    => /\ Len(errs) = 3
       /\ ret.kind = "wrapped"

\* ========================================================================
\* The download worker and the rate limiter
\* ========================================================================
\* what wp.rateLimiter.Wait(ctx, url) returns: nil, or an error (ctx was
\* cancelled, or the wait would pass its deadline)
WaitResults == {"nil", "err"}
NoWait == "none"

\* No worker has called Wait.
WaitParked == wlim = [w \in Workers |-> NoWait]

\* if err := wp.rateLimiter.Wait(ctx, url); err != nil { log.Warn()... }
WorkerWaitReturns(w) ==
    /\ WorkerRateLimit(w)
    /\ \E r \in WaitResults : wlim' = [wlim EXCEPT ![w] = r]

\* The job ends with its result sent or dropped by the select.
WorkerJobSent(w) ==
    /\ WorkerSend(w)
    /\ wlim' = [wlim EXCEPT ![w] = NoWait]

\* The job ends in the deferred recover().
WorkerJobRecovered(w) ==
    /\ WorkerRecover(w)
    /\ wlim' = [wlim EXCEPT ![w] = NoWait]

\* ------------------------------------------------------------------------
\* Properties of the worker's rate limiting
\* ------------------------------------------------------------------------
\* C34: for the job a worker has in hand, Wait has returned before Download
\* starts; whatever Wait returned, the worker goes on to Download, and the
\* Download ends in a result for that job's url or in the recovered panic
\* that reports it.
C34_WaitThenDownload ==
    [][\A w \in Workers :
          /\ (wpc[w] = "wait" /\ wpc'[w] # "wait")
                => wpc'[w] = "download" /\ wlim'[w] \in WaitResults
          /\ (wpc[w] # "downloading" /\ wpc'[w] = "downloading")
                => /\ wpc[w] = "download"
                   /\ wlim[w] \in WaitResults
                   /\ wurl'[w] = wurl[w]
          /\ (wpc[w] = "download" /\ wpc'[w] # "download")
                => wpc'[w] = "downloading"
          /\ (wpc[w] = "downloading" /\ wpc'[w] # "downloading")
                => \/ wpc'[w] = "send" /\ wres'[w].URL = wurl[w]
                   \/ wpc'[w] = "recover" /\ wurl'[w] = wurl[w]
      ]_vars

\* C34 witness: Wait returned an error for a job, the context not being
\* cancelled, and the Download of that job has produced a successful
\* result, which the worker is about to send.
C34_Witness ==
    \E w \in Workers :
       /\ wlim[w] = "err"
       /\ ~ctxDone
       /\ wpc[w] = "send"
       /\ wres[w].URL = wurl[w]
       /\ wres[w].Success

\* ========================================================================
\* The static scraper: Scraper.fetch and StaticScraper.Fetch
\* ========================================================================

StaticCallers == 1..NumStaticCallers

\* a URL is modelled by its host; every URL parses
StaticURLs == {"a.test", "b.test"}
\* opts.Selector
Selectors == {"", "body", "h1"}
\* opts.SessionName ("": none) and the sessions LoadSession can find
NoSession == ""
SessionNames == {NoSession, "s1"}
\* opts.Timeout in seconds (0: none given)
Timeouts == {0, 5}
\* cfg.HTTPTimeout = DefaultHTTPTimeout = 30 * time.Second, the Timeout the
\* client is made with (NewStaticScraper uses 30 * time.Second too)
DefaultHTTPTimeout == 30

\* client.Jar == nil
NoJar == [host |-> "", session |-> NoSession]

\* fmt.Sprintf("%s::%s", url, selector) for a selector other than "" and
\* "body", else the url
CacheKeyFromURL(url, selector) ==
    IF selector # "" /\ selector # "body"
    THEN <<url, "::", selector>>
    ELSE <<url>>

CacheKeys ==
    {CacheKeyFromURL(u, s) : u \in StaticURLs, s \in Selectors}

\* jar.Cookies(req.URL), by the session they came from: the cookies were
\* stored for the URL of the call that loaded the session
JarCookies(jar, url) ==
    IF jar.host = url THEN jar.session ELSE NoSession

NoStaticCall ==
    [pc |-> "idle", url |-> "", selector |-> "", session |-> NoSession,
     timeout |-> 0, sent |-> NoSession, used |-> 0]

\* static.New / NewStaticScraper, with the client app.New makes
NewStaticScraper ==
    sfetch = [jar |-> NoJar, timeout |-> DefaultHTTPTimeout,
              call |-> [c \in StaticCallers |-> NoStaticCall],
              calls |-> 0,
              net |-> [k \in CacheKeys |-> 0]]

StaticParked == NewStaticScraper

\* fetch(opts) is entered
StaticFetchStart(c) ==
    /\ sfetch.call[c].pc = "idle"
    /\ sfetch.calls < MaxStaticCalls
    /\ \E u \in StaticURLs, s \in Selectors, n \in SessionNames,
          t \in Timeouts :
          sfetch' = [sfetch EXCEPT
                       !.calls = @ + 1,
                       !.call[c] = [NoStaticCall EXCEPT
                                      !.pc = "session", !.url = u,
                                      !.selector = s, !.session = n,
                                      !.timeout = t]]

\* if opts.SessionName != "": auth.LoadSession, which may fail (then only
\* a warning is logged); else a new jar with the session's cookies for
\* opts.URL is stored in s.client.Jar
StaticLoadSession(c) ==
    /\ sfetch.call[c].pc = "session"
    /\ \E loaded \in BOOLEAN :
          sfetch' = [sfetch EXCEPT
                       !.call[c].pc = "timeout",
                       !.jar = IF sfetch.call[c].session # NoSession
                                  /\ loaded
                               THEN [host |-> sfetch.call[c].url,
                                     session |-> sfetch.call[c].session]
                               ELSE @]

\* http.NewRequest and the headers; if opts.Timeout > 0 it is stored in
\* s.client.Timeout
StaticSetTimeout(c) ==
    /\ sfetch.call[c].pc = "timeout"
    /\ sfetch' = [sfetch EXCEPT
                    !.call[c].pc = "do",
                    !.timeout = IF sfetch.call[c].timeout > 0
                                THEN sfetch.call[c].timeout
                                ELSE @]

\* s.client.Do(req): the request carries the cookies client.Jar has for
\* the URL and runs under client.Timeout; it fails or brings a response,
\* from which the PageData is built
StaticDo(c) ==
    /\ sfetch.call[c].pc = "do"
    /\ \E ok \in BOOLEAN :
          sfetch' = [sfetch EXCEPT
                       !.call[c].pc = "done",
                       !.call[c].sent =
                           JarCookies(sfetch.jar, sfetch.call[c].url),
                       !.call[c].used = sfetch.timeout,
                       !.net[CacheKeyFromURL(sfetch.call[c].url,
                                             sfetch.call[c].selector)] =
                           IF ok THEN @ + 1 ELSE @]

\* fetch returns
StaticReturn(c) ==
    /\ sfetch.call[c].pc = "done"
    /\ sfetch' = [sfetch EXCEPT !.call[c] = NoStaticCall]

\* C36: a Fetch that names no session sends no session cookies, and a
\* Fetch that gives no timeout runs under the configured default timeout.
C36_RequestOptionsStayLocal ==
    \A c \in StaticCallers :
       sfetch.call[c].pc = "done"
          => /\ sfetch.call[c].session = NoSession
                   => sfetch.call[c].sent = NoSession
             /\ sfetch.call[c].timeout = 0
                   => sfetch.call[c].used = DefaultHTTPTimeout

\* C37: for one URL and selector at most one response is fetched from the
\* network within the freshness window (no time passes here), and once it
\* was fetched the cache holds an entry.
C37_SecondFetchAnsweredFromCache ==
    \A k \in CacheKeys :
       sfetch.net[k] >= 1 => sfetch.net[k] = 1 /\ store # {}

\* ========================================================================
\* Specifications
\* ========================================================================
InitPool ==
    NewBrowserPool /\ NewMemoryCache /\ WorkerPoolParked /\ RetryParked
    /\ LimiterParked /\ StrategyParked
    /\ ProxyPoolParked /\ ScrapeBatchParked
    /\ NewPoolParked /\ NewApplication /\ FetchParked /\ WorkersParked
    /\ WaitParked /\ StaticParked

NextPool ==
    \/ \E f \in Fetches : AcquireStart(f) /\ UNCHANGED restOfPool
    \/ \E f \in Fetches : AcquireRecv(f) /\ UNCHANGED restOfPool
    \/ \E f \in Fetches : AcquireTimeout(f) /\ UNCHANGED restOfPool
    \/ \E f \in Fetches : AcquireCheck(f) /\ UNCHANGED restOfPool
    \/ \E f \in Fetches : ReleaseCheck(f) /\ UNCHANGED restOfPool
    \/ \E f \in Fetches : ReleaseSend(f) /\ UNCHANGED restOfPool
    \/ \E k \in Closers : CloseBegin(k) /\ UNCHANGED restOfPool
    \/ \E k \in Closers : CloseDrain(k) /\ UNCHANGED restOfPool
    \/ \E k \in Closers : CloseFinish(k) /\ UNCHANGED restOfPool

SpecPool == InitPool /\ [][NextPool]_vars

InitCache ==
    NewMemoryCache /\ NewBrowserPool /\ WorkerPoolParked /\ RetryParked
    /\ LimiterParked /\ StrategyParked
    /\ ProxyPoolParked /\ ScrapeBatchParked
    /\ NewPoolParked /\ NewApplication /\ FetchParked /\ WorkersParked
    /\ WaitParked /\ StaticParked

NextCache ==
    \/ \E k \in Keys : Get(k) /\ UNCHANGED restOfCache
    \/ \E k \in Keys, d \in Docs, ttl \in TTLs :
          Set(k, d, ttl) /\ UNCHANGED restOfCache
    \/ \E k \in Keys : Delete(k) /\ UNCHANGED restOfCache
    \/ \E k \in Keys : AsyncDelete(k) /\ UNCHANGED restOfCache
    \/ Clear /\ UNCHANGED restOfCache
    \/ Sweep /\ UNCHANGED restOfCache
    \/ Tick /\ UNCHANGED restOfCache

SpecCache == InitCache /\ [][NextCache]_vars
InitWP ==
    NewWorkerPool /\ NewBrowserPool /\ NewMemoryCache /\ RetryParked
    /\ LimiterParked /\ StrategyParked
    /\ ProxyPoolParked /\ ScrapeBatchParked
    /\ NewPoolParked /\ NewApplication /\ FetchParked /\ WorkersParked
    /\ WaitParked /\ StaticParked

NextWP ==
    \/ DownloadBatchStart /\ UNCHANGED restOfWP
    \/ CancelCtx /\ UNCHANGED restOfWP
    \/ SendJob /\ UNCHANGED restOfWP
    \/ CloseJobs /\ UNCHANGED restOfWP
    \/ \E w \in Workers : WorkerRange(w) /\ UNCHANGED restOfWP
    \/ \E w \in Workers : WorkerCheckCtx(w) /\ UNCHANGED restOfWP
    \/ \E w \in Workers : WorkerRateLimit(w) /\ UNCHANGED restOfWP
    \/ \E w \in Workers :
          WorkerDownloadStart(w) /\ UNCHANGED restOfWP
    \/ \E w \in Workers :
          WorkerDownloadEnd(w) /\ UNCHANGED restOfWP
    \/ \E w \in Workers : WorkerSend(w) /\ UNCHANGED restOfWP
    \/ \E w \in Workers : WorkerRecover(w) /\ UNCHANGED restOfWP
    \/ CloseResults /\ UNCHANGED restOfWP
    \/ Collect /\ UNCHANGED restOfWP

SpecWP == InitWP /\ [][NextWP]_vars

\* Every goroutine of DownloadBatch is scheduled and every started Download
\* call returns or panics; the caller may or may not cancel.
FairWP ==
    /\ WF_vars(DownloadBatchStart /\ UNCHANGED restOfWP)
    /\ WF_vars(SendJob /\ UNCHANGED restOfWP)
    /\ WF_vars(CloseJobs /\ UNCHANGED restOfWP)
    /\ WF_vars(CloseResults /\ UNCHANGED restOfWP)
    /\ WF_vars(Collect /\ UNCHANGED restOfWP)
    /\ \A w \in Workers :
          /\ WF_vars(WorkerRange(w) /\ UNCHANGED restOfWP)
          /\ WF_vars(WorkerCheckCtx(w) /\ UNCHANGED restOfWP)
          /\ WF_vars(WorkerRateLimit(w) /\ UNCHANGED restOfWP)
          /\ WF_vars(WorkerDownloadStart(w)
                     /\ UNCHANGED restOfWP)
          /\ WF_vars(WorkerDownloadEnd(w) /\ UNCHANGED restOfWP)
          /\ WF_vars(WorkerSend(w) /\ UNCHANGED restOfWP)
          /\ WF_vars(WorkerRecover(w) /\ UNCHANGED restOfWP)

SpecWPLive == SpecWP /\ FairWP

InitRetry ==
    NewRetry /\ NewBrowserPool /\ NewMemoryCache /\ WorkerPoolParked
    /\ LimiterParked /\ StrategyParked
    /\ ProxyPoolParked /\ ScrapeBatchParked
    /\ NewPoolParked /\ NewApplication /\ FetchParked /\ WorkersParked
    /\ WaitParked /\ StaticParked

NextRetry ==
    \/ RetryAttempt /\ UNCHANGED restOfRetry
    \/ RetryExhausted /\ UNCHANGED restOfRetry
    \/ RetryTick /\ UNCHANGED restOfRetry
    \/ SleepTimer /\ UNCHANGED restOfRetry
    \/ SleepCtxDone /\ UNCHANGED restOfRetry
    \/ RetryCancelCtx /\ UNCHANGED restOfRetry

SpecRetry == InitRetry /\ [][NextRetry]_vars

InitDownload ==
    NewDownload /\ NewBrowserPool /\ NewMemoryCache /\ WorkerPoolParked
    /\ LimiterParked /\ StrategyParked /\ ProxyPoolParked
    /\ ScrapeBatchParked /\ NewPoolParked /\ NewApplication /\ FetchParked
    /\ WorkersParked /\ WaitParked /\ StaticParked

NextDownload ==
    \/ DownloadAttempt /\ UNCHANGED restOfRetry
    \/ RetryExhausted /\ UNCHANGED restOfRetry
    \/ RetryTick /\ UNCHANGED restOfRetry
    \/ SleepTimer /\ UNCHANGED restOfRetry
    \/ SleepCtxDone /\ UNCHANGED restOfRetry
    \/ RetryCancelCtx /\ UNCHANGED restOfRetry

SpecDownload == InitDownload /\ [][NextDownload]_vars

InitLim ==
    NewDomainLimiter /\ NewBrowserPool /\ NewMemoryCache /\ WorkerPoolParked
    /\ RetryParked /\ StrategyParked
    /\ ProxyPoolParked /\ ScrapeBatchParked
    /\ NewPoolParked /\ NewApplication /\ FetchParked /\ WorkersParked
    /\ WaitParked /\ StaticParked

NextLim ==
    \/ \E p \in LimCallers : LimCallStart(p) /\ UNCHANGED restOfLim
    \/ \E p \in LimCallers : GetLimiterRead(p) /\ UNCHANGED restOfLim
    \/ \E p \in LimCallers : GetLimiterCreate(p) /\ UNCHANGED restOfLim
    \/ \E p \in LimCallers : LimiterOp(p) /\ UNCHANGED restOfLim
    \/ \E p \in LimCallers : WaitReturn(p) /\ UNCHANGED restOfLim
    \/ \E p \in LimCallers : WaitCancel(p) /\ UNCHANGED restOfLim
    \/ \E p \in LimCallers : SetLimitLock(p) /\ UNCHANGED restOfLim
    \/ \E p \in LimCallers : SetLimitRate(p) /\ UNCHANGED restOfLim
    \/ \E p \in LimCallers : SetLimitBurst(p) /\ UNCHANGED restOfLim
    \/ LimTick /\ UNCHANGED restOfLim

SpecLim == InitLim /\ [][NextLim]_vars

InitStrat ==
    NewStrategyCall /\ NewBrowserPool /\ NewMemoryCache /\ WorkerPoolParked
    /\ RetryParked /\ LimiterParked
    /\ ProxyPoolParked /\ ScrapeBatchParked
    /\ NewPoolParked /\ NewApplication /\ FetchParked /\ WorkersParked
    /\ WaitParked /\ StaticParked

NextStrat == DetermineStrategyCall /\ UNCHANGED restOfStrat

SpecStrat == InitStrat /\ [][NextStrat]_vars

InitProxy ==
    NewProxyPool /\ NewBrowserPool /\ NewMemoryCache /\ WorkerPoolParked
    /\ RetryParked /\ LimiterParked /\ StrategyParked /\ ScrapeBatchParked
    /\ NewPoolParked /\ NewApplication /\ FetchParked /\ WorkersParked
    /\ WaitParked /\ StaticParked

NextProxy ==
    \/ GetNextStart /\ UNCHANGED restOfProxy
    \/ GetNextLoop /\ UNCHANGED restOfProxy
    \/ \E x \in ProxyNames : MarkFailed(x) /\ UNCHANGED restOfProxy
    \/ \E x \in ProxyNames : MarkHealthy(x) /\ UNCHANGED restOfProxy
    \/ ProxyTick /\ UNCHANGED restOfProxy

SpecProxy == InitProxy /\ [][NextProxy]_vars

InitBatch ==
    NewScrapeBatch /\ NewBrowserPool /\ NewMemoryCache /\ WorkerPoolParked
    /\ RetryParked /\ LimiterParked /\ StrategyParked /\ ProxyPoolParked
    /\ NewPoolParked /\ NewApplication /\ FetchParked /\ WorkersParked
    /\ WaitParked /\ StaticParked

NextBatch ==
    \/ BatchCancel /\ UNCHANGED restOfBatch
    \/ BatchNextGroup /\ UNCHANGED restOfBatch
    \/ BatchAdd /\ UNCHANGED restOfBatch
    \/ BatchSem /\ UNCHANGED restOfBatch
    \/ BatchWaitClose /\ UNCHANGED restOfBatch
    \/ BatchCollect /\ UNCHANGED restOfBatch
    \/ \E i \in 1..Len(requests) : JobFetch(i) /\ UNCHANGED restOfBatch
    \/ \E i \in 1..Len(requests) : JobSend(i) /\ UNCHANGED restOfBatch
    \/ \E i \in 1..Len(requests) : JobRelease(i) /\ UNCHANGED restOfBatch
    \/ \E i \in 1..Len(requests) : JobDone(i) /\ UNCHANGED restOfBatch

SpecBatch == InitBatch /\ [][NextBatch]_vars

InitNewPool ==
    NewPoolCall /\ NewBrowserPool /\ NewMemoryCache /\ WorkerPoolParked
    /\ RetryParked /\ LimiterParked /\ StrategyParked /\ ProxyPoolParked
    /\ ScrapeBatchParked /\ NewApplication /\ FetchParked /\ WorkersParked
    /\ WaitParked /\ StaticParked

NextNewPool ==
    \/ NewPoolMake /\ UNCHANGED restOfNewPool
    \/ NewPoolContext /\ UNCHANGED restOfNewPool

SpecNewPool == InitNewPool /\ [][NextNewPool]_vars

InitApp ==
    NewApplication /\ NewBrowserPool /\ NewMemoryCache /\ WorkerPoolParked
    /\ RetryParked /\ LimiterParked /\ StrategyParked /\ ProxyPoolParked
    /\ ScrapeBatchParked /\ NewPoolParked /\ FetchParked /\ WorkersParked
    /\ WaitParked /\ StaticParked

NextApp ==
    \/ \E g \in AppCallers : EnsureLock(g) /\ UNCHANGED restOfApp
    \/ \E g \in AppCallers : EnsureCreate(g) /\ UNCHANGED restOfApp
    \/ \E g \in AppCallers : EnsureAttach(g) /\ UNCHANGED restOfApp
    \/ \E g \in AppCallers : FetchReadPool(g) /\ UNCHANGED restOfApp

SpecApp == InitApp /\ [][NextApp]_vars

InitFetch == InitPool

NextFetch ==
    \/ \E f \in Fetches : FetchStart(f) /\ UNCHANGED restOfFetch
    \/ \E f \in Fetches : FetchAcquireRecv(f) /\ UNCHANGED restOfFetch
    \/ \E f \in Fetches : FetchAcquireTimeout(f) /\ UNCHANGED restOfFetch
    \/ \E f \in Fetches : FetchAcquireCheck(f) /\ UNCHANGED restOfFetch
    \/ \E f \in Fetches : FetchRun(f) /\ UNCHANGED restOfFetch
    \/ \E f \in Fetches : FetchReleaseCheck(f) /\ UNCHANGED restOfFetch
    \/ \E f \in Fetches : FetchReleaseSend(f) /\ UNCHANGED restOfFetch
    \/ CloseBegin(AppCloser) /\ UNCHANGED fetch /\ UNCHANGED restOfFetch
    \/ CloseDrain(AppCloser) /\ UNCHANGED fetch /\ UNCHANGED restOfFetch
    \/ CloseFinish(AppCloser) /\ UNCHANGED fetch /\ UNCHANGED restOfFetch

SpecFetch == InitFetch /\ [][NextFetch]_vars

InitWorkers ==
    NewWorkerPoolCall /\ NewBrowserPool /\ NewMemoryCache /\ WorkerPoolParked
    /\ RetryParked /\ LimiterParked /\ StrategyParked /\ ProxyPoolParked
    /\ ScrapeBatchParked /\ NewPoolParked /\ NewApplication /\ FetchParked
    /\ WaitParked /\ StaticParked

NextWorkers ==
    \/ WorkersBatchStart /\ UNCHANGED restOfWorkers
    \/ WorkersSpawn /\ UNCHANGED restOfWorkers
    \/ WorkersCancel /\ UNCHANGED restOfWorkers
    \/ WorkersTake /\ UNCHANGED restOfWorkers
    \/ WorkersDownloadEnd /\ UNCHANGED restOfWorkers
    \/ WorkersExit /\ UNCHANGED restOfWorkers
    \/ WorkersReturn /\ UNCHANGED restOfWorkers

SpecWorkers == InitWorkers /\ [][NextWorkers]_vars

InitWait == InitWP

NextWait ==
    \/ DownloadBatchStart /\ UNCHANGED wlim /\ UNCHANGED restOfWait
    \/ CancelCtx /\ UNCHANGED wlim /\ UNCHANGED restOfWait
    \/ SendJob /\ UNCHANGED wlim /\ UNCHANGED restOfWait
    \/ CloseJobs /\ UNCHANGED wlim /\ UNCHANGED restOfWait
    \/ \E w \in Workers :
          WorkerRange(w) /\ UNCHANGED wlim /\ UNCHANGED restOfWait
    \/ \E w \in Workers :
          WorkerCheckCtx(w) /\ UNCHANGED wlim /\ UNCHANGED restOfWait
    \/ \E w \in Workers : WorkerWaitReturns(w) /\ UNCHANGED restOfWait
    \/ \E w \in Workers :
          WorkerDownloadStart(w) /\ UNCHANGED wlim /\ UNCHANGED restOfWait
    \/ \E w \in Workers :
          WorkerDownloadEnd(w) /\ UNCHANGED wlim /\ UNCHANGED restOfWait
    \/ \E w \in Workers : WorkerJobSent(w) /\ UNCHANGED restOfWait
    \/ \E w \in Workers : WorkerJobRecovered(w) /\ UNCHANGED restOfWait
    \/ CloseResults /\ UNCHANGED wlim /\ UNCHANGED restOfWait
    \/ Collect /\ UNCHANGED wlim /\ UNCHANGED restOfWait

SpecWait == InitWait /\ [][NextWait]_vars

InitStatic ==
    NewStaticScraper /\ NewBrowserPool /\ NewMemoryCache /\ WorkerPoolParked
    /\ RetryParked /\ LimiterParked /\ StrategyParked /\ ProxyPoolParked
    /\ ScrapeBatchParked /\ NewPoolParked /\ NewApplication /\ FetchParked
    /\ WorkersParked /\ WaitParked

NextStatic ==
    \/ \E c \in StaticCallers : StaticFetchStart(c) /\ UNCHANGED restOfStatic
    \/ \E c \in StaticCallers : StaticLoadSession(c) /\ UNCHANGED restOfStatic
    \/ \E c \in StaticCallers : StaticSetTimeout(c) /\ UNCHANGED restOfStatic
    \/ \E c \in StaticCallers : StaticDo(c) /\ UNCHANGED restOfStatic
    \/ \E c \in StaticCallers : StaticReturn(c) /\ UNCHANGED restOfStatic

SpecStatic == InitStatic /\ [][NextStatic]_vars

====
